---- MODULE Spec2Model ----
(***************************************************************************)
(* A model of package cli (pnelson/cli): the flag parser Parse, the Flag   *)
(* value object, and the command registry / dispatcher (New, Add, Use,     *)
(* Run).                                                                   *)
(*                                                                         *)
(* Go strings are modelled as sequences of one-character strings, so that  *)
(* indexing, slicing, prefix tests and case conversion are computed the    *)
(* way the code computes them: "-gs1" is <<"-","g","s","1">> and "" is     *)
(* <<>>.                                                                   *)
(***************************************************************************)
EXTENDS Integers, Sequences, FiniteSets, TLC

VARIABLES
    environ, \* the process environment: os.LookupEnv(k) is ok exactly for k in its domain
    call,    \* the arguments of the Parse call under way: args, flags, strict
    p,       \* the activation of Parse: remaining args, pending key, flags, position, result
    cli,     \* the CLI object: configuration, global flags, flag map, command table
    ret      \* the last call on the CLI object, what it returned and what it did

vars == <<environ, call, p, cli, ret>>

(***************************************************************************)
(* Strings                                                                 *)
(***************************************************************************)

LowerLetters == <<"a","b","c","d","e","f","g","h","i","j","k","l","m",
                  "n","o","p","q","r","s","t","u","v","w","x","y","z">>

UpperLetters == <<"A","B","C","D","E","F","G","H","I","J","K","L","M",
                  "N","O","P","Q","R","S","T","U","V","W","X","Y","Z">>

Range(s) == {s[i] : i \in 1..Len(s)}

\* unicode.IsLetter on the ASCII range.
IsLetter(c) == c \in Range(LowerLetters) \cup Range(UpperLetters)

\* strings.Index(s, c) for a one-byte needle: 0-based, -1 when absent.
IndexByte(s, c) ==
    IF \E i \in 1..Len(s) : s[i] = c
    THEN (CHOOSE i \in 1..Len(s) : s[i] = c /\ \A j \in 1..(i-1) : s[j] /= c) - 1
    ELSE -1

\* The Go slice expression s[from:to], 0-based, to exclusive.
Slice(s, from, to) == SubSeq(s, from + 1, to)

\* The Go slice expression s[from:].
SliceFrom(s, from) == SubSeq(s, from + 1, Len(s))

\* The index of c in the alphabet s, 0 when absent.
LetterIndex(s, c) ==
    IF \E i \in 1..Len(s) : s[i] = c THEN CHOOSE i \in 1..Len(s) : s[i] = c ELSE 0

\* strings.ToLower on the ASCII range.
ToLower(s) ==
    [i \in 1..Len(s) |->
        IF LetterIndex(UpperLetters, s[i]) > 0
        THEN LowerLetters[LetterIndex(UpperLetters, s[i])] ELSE s[i]]

\* strings.ToUpper on the ASCII range.
ToUpper(s) ==
    [i \in 1..Len(s) |->
        IF LetterIndex(LowerLetters, s[i]) > 0
        THEN UpperLetters[LetterIndex(LowerLetters, s[i])] ELSE s[i]]

Hyphen == <<"-">>
DoubleHyphen == <<"-","-">>
StrTrue == <<"t","r","u","e">>

(***************************************************************************)
(* Errors                                                                  *)
(***************************************************************************)

NilErr == [type |-> "nil", arg |-> <<>>]
ErrFlagSyntax(s) == [type |-> "ErrFlagSyntax", arg |-> s]
ErrUndefinedFlag(s) == [type |-> "ErrUndefinedFlag", arg |-> s]
ErrRequiresArg(s) == [type |-> "ErrRequiresArg", arg |-> s]

(***************************************************************************)
(* Flag and FlagKind                                                       *)
(***************************************************************************)

\* flagBool.Parse: the recognised truthy tokens.
TruthyTokens ==
    { <<"1">>, <<"t">>, <<"T">>, <<"t","r","u","e">>, <<"T","R","U","E">>,
      <<"T","r","u","e">>, <<"y">>, <<"Y">>, <<"y","e","s">>, <<"Y","E","S">>,
      <<"Y","e","s">> }

\* A mutation of KindParse: the boolean kind compares without regard to case.
KindParseAnyCase(kind, value) ==
    IF kind = "bool" THEN ToLower(value) \in TruthyTokens ELSE value

\* FlagKind.Parse of the two built-in kinds.
KindParse(kind, value) ==
    IF kind = "bool" THEN value \in TruthyTokens ELSE value

\* FlagKind.HasArg of the two built-in kinds.
KindHasArg(kind) == kind /= "bool"

\* NewFlag(name, &dest, Kind(kind), ShortFlag(alias), EnvironmentKey(envKey),
\* DefaultValue(def)).  DefaultValue assigns the destination and the raw value
\* without counting; an empty def is the same as no DefaultValue option.
NewFlag(name, kind, alias, envKey, def) ==
    [ name         |-> ToLower(name),
      alias        |-> alias,
      kind         |-> kind,
      count        |-> 0,
      value        |-> def,
      envKey       |-> envKey,
      defaultValue |-> def,
      flag         |-> KindParse(kind, def) ]

\* A mutation of Flag.Set: the occurrence is not counted.
FlagSetNoCount(f, value) ==
    [f EXCEPT !.flag  = KindParse(f.kind, value),
              !.value = value]

\* Flag.Set
FlagSet(f, value) ==
    [f EXCEPT !.count = @ + 1,
              !.flag  = KindParse(f.kind, value),
              !.value = value]

\* Flag.IsSet
FlagIsSet(f) == f.count > 0

(***************************************************************************)
(* Parse                                                                   *)
(***************************************************************************)

\* The map m of Parse: m[f.name] = f and m[f.alias] = f, later flags
\* overwriting earlier ones.  The flag is named by its index in flags.
FlagKeys(flags) ==
    {flags[i].name : i \in 1..Len(flags)} \cup
    {flags[i].alias : i \in {j \in 1..Len(flags) : flags[j].alias /= <<>>}}

FlagMatches(f, key) == f.name = key \/ (f.alias /= <<>> /\ f.alias = key)

\* _, ok := m[key]
FlagDefined(flags, key) == \E i \in 1..Len(flags) : FlagMatches(flags[i], key)

\* f := m[key], as an index into flags.
FlagLookup(flags, key) ==
    CHOOSE i \in 1..Len(flags) :
        /\ FlagMatches(flags[i], key)
        /\ \A j \in (i+1)..Len(flags) : ~FlagMatches(flags[j], key)

\* A mutation of ParseEnv: a flag that has a default value is not pre-seeded.
ParseEnvDefaultWins(flags, env) ==
    [i \in 1..Len(flags) |->
        IF flags[i].envKey \in DOMAIN env /\ flags[i].defaultValue = <<>>
        THEN FlagSet(flags[i], env[flags[i].envKey])
        ELSE flags[i]]

\* A mutation of ParseEnv: the environment is not consulted.
ParseEnvNever(flags, env) == flags

\* The first loop of Parse: environment pre-seeding.
ParseEnv(flags, env) ==
    [i \in 1..Len(flags) |->
        IF flags[i].envKey \in DOMAIN env
        THEN FlagSet(flags[i], env[flags[i].envKey])
        ELSE flags[i]]

\* A mutation of ParseFail: the flags are put back as they were constructed.
ParseFailRollsBack(q, e) ==
    [q EXCEPT !.pc = "done", !.args = <<>>, !.err = e,
              !.flags = [i \in 1..Len(q.flags) |->
                            [q.flags[i] EXCEPT
                                !.count = 0,
                                !.value = q.flags[i].defaultValue,
                                !.flag = KindParse(q.flags[i].kind,
                                                   q.flags[i].defaultValue)]]]

\* return nil, err
ParseFail(q, e) == [q EXCEPT !.pc = "done", !.args = <<>>, !.err = e]

\* The index-out-of-range run-time panic of arg[0] on an empty arg.
ParsePanic(q) == [q EXCEPT !.pc = "panic", !.args = <<>>]

\* A mutation of StripHyphens: only one hyphen is stripped.
StripOneHyphen(arg) == SliceFrom(arg, 1)

\* arg[1] == '-' ? arg[2:] : arg[1:]
StripHyphens(arg) == IF arg[2] = "-" THEN SliceFrom(arg, 2) ELSE SliceFrom(arg, 1)

\* A mutation of ParsePending: a token that leads with a hyphen is taken as the value.
ParsePendingNoHyphenCheck(q, arg, rest, strict) ==
    IF ~FlagDefined(q.flags, q.key)
    THEN IF strict THEN ParseFail(q, ErrUndefinedFlag(q.key))
                   ELSE [q EXCEPT !.args = rest]
    ELSE LET i == FlagLookup(q.flags, q.key) IN
         IF ~KindHasArg(q.flags[i].kind)
         THEN [q EXCEPT !.key = <<>>,
                        !.flags[i] = FlagSet(q.flags[i], StrTrue)]
         ELSE IF arg = <<>> THEN ParsePanic(q)
         ELSE [q EXCEPT !.key = <<>>,
                        !.args = rest,
                        !.flags[i] = FlagSet(q.flags[i], arg)]

\* A mutation of ParsePending: a no-argument flag consumes the current token.
ParsePendingBoolConsumes(q, arg, rest, strict) ==
    IF ~FlagDefined(q.flags, q.key)
    THEN IF strict THEN ParseFail(q, ErrUndefinedFlag(q.key))
                   ELSE [q EXCEPT !.args = rest]
    ELSE LET i == FlagLookup(q.flags, q.key) IN
         IF ~KindHasArg(q.flags[i].kind)
         THEN [q EXCEPT !.key = <<>>,
                        !.args = rest,
                        !.flags[i] = FlagSet(q.flags[i], StrTrue)]
         ELSE IF arg = <<>> THEN ParsePanic(q)
         ELSE IF arg[1] = "-" THEN ParseFail(q, ErrRequiresArg(q.key))
         ELSE [q EXCEPT !.key = <<>>,
                        !.args = rest,
                        !.flags[i] = FlagSet(q.flags[i], arg)]

\* A mutation of ParsePending: a no-argument flag re-queues the current token
\* and leaves the key pending.
ParsePendingKeepsKey(q, arg, rest, strict) ==
    IF ~FlagDefined(q.flags, q.key)
    THEN IF strict THEN ParseFail(q, ErrUndefinedFlag(q.key))
                   ELSE [q EXCEPT !.args = rest]
    ELSE IF ~KindHasArg(q.flags[FlagLookup(q.flags, q.key)].kind)
    THEN [q EXCEPT !.flags[FlagLookup(q.flags, q.key)] =
                       FlagSet(q.flags[FlagLookup(q.flags, q.key)], StrTrue)]
    ELSE IF arg = <<>> THEN ParsePanic(q)
    ELSE IF arg[1] = "-" THEN ParseFail(q, ErrRequiresArg(q.key))
    ELSE [q EXCEPT !.key = <<>>,
                   !.args = rest,
                   !.flags[FlagLookup(q.flags, q.key)] =
                       FlagSet(q.flags[FlagLookup(q.flags, q.key)], arg)]

\* The pending-key branch of the scan loop (key != "").
ParsePending(q, arg, rest, strict) ==
    IF ~FlagDefined(q.flags, q.key)
    THEN IF strict THEN ParseFail(q, ErrUndefinedFlag(q.key))
                   ELSE [q EXCEPT !.args = rest]
    ELSE LET i == FlagLookup(q.flags, q.key) IN
         IF ~KindHasArg(q.flags[i].kind)
         THEN [q EXCEPT !.key = <<>>,
                        !.flags[i] = FlagSet(q.flags[i], StrTrue)]
         ELSE IF arg = <<>> THEN ParsePanic(q)
         ELSE IF arg[1] = "-" THEN ParseFail(q, ErrRequiresArg(q.key))
         ELSE [q EXCEPT !.key = <<>>,
                        !.args = rest,
                        !.flags[i] = FlagSet(q.flags[i], arg)]

\* A mutation of ParseOpen: the first character of the key is not examined.
ParseOpenAnyFirst(q, arg, rest, strict) ==
    LET a == StripHyphens(arg)
        i == IndexByte(a, "=")
    IN  IF i = -1 THEN [q EXCEPT !.key = a, !.args = rest]
        ELSE IF ~FlagDefined(q.flags, Slice(a, 0, i))
        THEN IF strict THEN ParseFail(q, ErrUndefinedFlag(Slice(a, 0, i)))
                       ELSE [q EXCEPT !.key = Slice(a, 0, i), !.args = rest]
        ELSE [q EXCEPT !.key = <<>>,
                       !.args = rest,
                       !.flags[FlagLookup(q.flags, Slice(a, 0, i))] =
                           FlagSet(q.flags[FlagLookup(q.flags, Slice(a, 0, i))],
                                   SliceFrom(a, i + 1))]

\* The flag-opening branch of the scan loop: arg leads with a hyphen.
ParseOpen(q, arg, rest, strict) ==
    LET a == StripHyphens(arg) IN
    IF ~IsLetter(a[1]) THEN ParseFail(q, ErrFlagSyntax(a))
    ELSE LET i == IndexByte(a, "=") IN
         IF i = -1 THEN [q EXCEPT !.key = a, !.args = rest]
         ELSE LET k == Slice(a, 0, i) IN
              IF ~FlagDefined(q.flags, k)
              THEN IF strict THEN ParseFail(q, ErrUndefinedFlag(k))
                             ELSE [q EXCEPT !.key = k, !.args = rest]
              ELSE LET f == FlagLookup(q.flags, k) IN
                   [q EXCEPT !.key = <<>>,
                             !.args = rest,
                             !.flags[f] = FlagSet(q.flags[f], SliceFrom(a, i + 1))]

\* A mutation of ParseIter: a positional token is skipped and scanning goes on.
ParseIterSkipsPositional(q, strict) ==
    LET arg  == Head(q.args)
        rest == Tail(q.args)
    IN  IF arg = Hyphen \/ arg = DoubleHyphen THEN [q EXCEPT !.pc = "after"]
        ELSE IF q.key /= <<>> THEN ParsePending(q, arg, rest, strict)
        ELSE IF arg = <<>> \/ arg[1] /= "-" THEN [q EXCEPT !.args = rest]
        ELSE ParseOpen(q, arg, rest, strict)

\* One iteration of the scan loop, len(args) > 0.
ParseIter(q, strict) ==
    LET arg  == Head(q.args)
        rest == Tail(q.args)
    IN  IF arg = Hyphen \/ arg = DoubleHyphen THEN [q EXCEPT !.pc = "after"]
        ELSE IF q.key /= <<>> THEN ParsePending(q, arg, rest, strict)
        ELSE IF arg = <<>> \/ arg[1] /= "-" THEN [q EXCEPT !.pc = "after"]
        ELSE ParseOpen(q, arg, rest, strict)

\* A mutation of ParseAfter: an undefined key pending at the end is never an error.
ParseAfterIgnoresUndefined(q, strict) ==
    IF q.key /= <<>>
    THEN IF FlagDefined(q.flags, q.key)
         THEN LET i == FlagLookup(q.flags, q.key) IN
              IF KindHasArg(q.flags[i].kind)
              THEN ParseFail(q, ErrRequiresArg(q.key))
              ELSE [q EXCEPT !.pc = "done",
                             !.flags[i] = FlagSet(q.flags[i], StrTrue)]
         ELSE [q EXCEPT !.pc = "done"]
    ELSE [q EXCEPT !.pc = "done"]

\* The code after the scan loop: a key still pending at the end of the scan.
ParseAfter(q, strict) ==
    IF q.key /= <<>>
    THEN IF FlagDefined(q.flags, q.key)
         THEN LET i == FlagLookup(q.flags, q.key) IN
              IF KindHasArg(q.flags[i].kind)
              THEN ParseFail(q, ErrRequiresArg(q.key))
              ELSE [q EXCEPT !.pc = "done",
                             !.flags[i] = FlagSet(q.flags[i], StrTrue)]
         ELSE IF strict THEN ParseFail(q, ErrUndefinedFlag(q.key))
                        ELSE [q EXCEPT !.pc = "done"]
    ELSE [q EXCEPT !.pc = "done"]

\* The activation of Parse on entry.
ParseEntry(args, flags) ==
    [pc |-> "entry", args |-> args, key |-> <<>>, flags |-> flags, err |-> NilErr]

\* One step of Parse from position q.pc.
ParseStep(q, strict, env) ==
    CASE q.pc = "entry" -> [q EXCEPT !.pc = "scan", !.flags = ParseEnv(q.flags, env)]
      [] q.pc = "scan" /\ q.args /= <<>> -> ParseIter(q, strict)
      [] q.pc = "scan" /\ q.args = <<>> -> ParseAfter(q, strict)
      [] q.pc = "after" -> ParseAfter(q, strict)
      [] OTHER -> q

RECURSIVE ParseRun(_, _, _)
\* Parse run to its return (or panic) from position q.pc.
ParseRun(q, strict, env) ==
    IF q.pc \in {"done", "panic"} THEN q
    ELSE ParseRun(ParseStep(q, strict, env), strict, env)

\* Parse(args, flags, strict) under environment env.
Parse(args, flags, strict, env) == ParseRun(ParseEntry(args, flags), strict, env)

(***************************************************************************)
(* Parse as a state machine: one call of Parse on inputs drawn from        *)
(* bounded sets.                                                           *)
(***************************************************************************)

MaxArgs == 3

\* The flag names, values and environment keys of the parser inputs.
NameS == <<"s">>
NameB == <<"b">>
NameU == <<"u">>
AliasA == <<"a">>
ValV == <<"v">>
ValD == <<"d">>
ValE == <<"e">>
EnvS == <<"S">>
EnvB == <<"B">>

\* The tokens the argument lists are drawn from.
Tokens ==
    { <<"-","s">>, <<"-","-","s">>, <<"-","s","=","v">>, <<"-","-","s","=","v">>,
      <<"-","a">>,
      <<"-","b">>, <<"-","-","b">>,
      <<"-","u">>, <<"-","u","=","v">>,
      <<"-","1">>, <<"-","-","-","s">>,
      Hyphen, DoubleHyphen, ValV, <<>> }

ArgLists == UNION {[1..n -> Tokens] : n \in 0..MaxArgs}

\* The flag sets: a string flag s (alias a) and a boolean flag b, as in the
\* package's tests (gs1, gb1), with and without default values.
FlagSets ==
    { << NewFlag(NameS, "string", AliasA, EnvS, ValD),
         NewFlag(NameB, "bool", <<>>, EnvB, <<>>) >>,
      << NewFlag(NameS, "string", AliasA, <<>>, <<>>),
         NewFlag(NameB, "bool", <<>>, EnvB, StrTrue) >> }

\* The environments: os.LookupEnv(k) is ok exactly for k in DOMAIN env.
EmptyEnv == [k \in {} |-> <<>>]
Envs == { EmptyEnv,
          [k \in {EnvS, EnvB} |-> IF k = EnvS THEN ValE ELSE <<"1">>] }

\* No CLI object takes part in a direct call of Parse.
NoCLI == [name |-> <<>>]
NoCall == [op |-> "none", n |-> 0]

InitParse ==
    /\ environ \in Envs
    /\ call \in [args : ArgLists, flags : FlagSets, strict : BOOLEAN]
    /\ p = ParseEntry(call.args, call.flags)
    /\ cli = NoCLI
    /\ ret = NoCall

\* Parse, lines up to the scan loop: build m and pre-seed from the environment.
ParseSeed ==
    /\ p.pc = "entry"
    /\ p' = ParseStep(p, call.strict, environ)
    /\ UNCHANGED <<environ, call, cli, ret>>

\* Parse, one iteration of the scan loop.
ParseScan ==
    /\ p.pc = "scan" /\ p.args /= <<>>
    /\ p' = ParseStep(p, call.strict, environ)
    /\ UNCHANGED <<environ, call, cli, ret>>

\* Parse, from the end of the scan loop to the return.
ParseReturn ==
    /\ \/ p.pc = "after"
       \/ p.pc = "scan" /\ p.args = <<>>
    /\ p' = ParseStep(p, call.strict, environ)
    /\ UNCHANGED <<environ, call, cli, ret>>

NextParse == ParseSeed \/ ParseScan \/ ParseReturn

SpecParse == InitParse /\ [][NextParse]_vars

(***************************************************************************)
(* The argument grammar, read off the token list alone.  These definitions *)
(* are the reference the parser claims are stated against.                 *)
(***************************************************************************)

IsTerminator(t) == t = Hyphen \/ t = DoubleHyphen

LeadsWithHyphen(t) == t /= <<>> /\ t[1] = "-"

\* A token at which flag scanning stops when it is examined with no key pending.
StopsScan(t) == IsTerminator(t) \/ ~LeadsWithHyphen(t)

\* The key and the value of a flag token -key, --key, -key=value, --key=value.
TokenHasValue(t) == IndexByte(StripHyphens(t), "=") /= -1

TokenKey(t) ==
    LET a == StripHyphens(t) IN
    IF TokenHasValue(t) THEN Slice(a, 0, IndexByte(a, "=")) ELSE a

TokenValue(t) ==
    LET a == StripHyphens(t) IN SliceFrom(a, IndexByte(a, "=") + 1)

\* The flag token takes the token after it as its value.
TakesNext(args, flags) ==
    /\ ~TokenHasValue(Head(args))
    /\ FlagDefined(flags, TokenKey(Head(args)))
    /\ KindHasArg(flags[FlagLookup(flags, TokenKey(Head(args)))].kind)
    /\ Len(args) >= 2

RECURSIVE Occurrences(_, _)
\* The flag occurrences of an argument list, in input order, up to the token
\* where scanning stops.
Occurrences(args, flags) ==
    IF args = <<>> \/ StopsScan(Head(args)) THEN <<>>
    ELSE IF TokenHasValue(Head(args))
    THEN <<[key |-> TokenKey(Head(args)), value |-> TokenValue(Head(args))]>>
         \o Occurrences(Tail(args), flags)
    ELSE IF TakesNext(args, flags)
    THEN <<[key |-> TokenKey(Head(args)), value |-> args[2]]>>
         \o Occurrences(Tail(Tail(args)), flags)
    ELSE <<[key |-> TokenKey(Head(args)), value |-> StrTrue]>>
         \o Occurrences(Tail(args), flags)

RECURSIVE ScanLen(_, _)
\* The number of tokens before the token where scanning stops.
ScanLen(args, flags) ==
    IF args = <<>> \/ StopsScan(Head(args)) THEN 0
    ELSE IF TakesNext(args, flags) THEN 2 + ScanLen(Tail(Tail(args)), flags)
    ELSE 1 + ScanLen(Tail(args), flags)

\* The occurrences that name flag i.
OccurrencesOf(i, args, flags) ==
    SelectSeq(Occurrences(args, flags),
              LAMBDA o : FlagDefined(flags, o.key) /\ FlagLookup(flags, o.key) = i)

\* What a caller of Parse observes: the return values and the flags.
Outcome(q) == [pc |-> q.pc, args |-> q.args, err |-> q.err, flags |-> q.flags]

\* The call under way returned (or panicked), and its outcome from here.
Returned == p.pc = "done"
Final == ParseRun(p, call.strict, environ)

\* The scan loop is about to open the flag token at the head of the arguments.
Opens ==
    /\ p.pc = "scan" /\ p.key = <<>> /\ p.args /= <<>>
    /\ LeadsWithHyphen(Head(p.args)) /\ ~IsTerminator(Head(p.args))
    /\ IsLetter(StripHyphens(Head(p.args))[1])

OpenedKey == TokenKey(Head(p.args))

(***************************************************************************)
(* Claims about Parse                                                      *)
(***************************************************************************)

\* C1: value precedence.  After a successful Parse every flag holds the value
\* of its last occurrence on the command line; with no occurrence, the value
\* of its environment variable; with neither, its default value.
C1_Precedence ==
    (Returned /\ p.err = NilErr /\ call.strict) =>
        \A i \in 1..Len(p.flags) :
            LET occ == OccurrencesOf(i, call.args, call.flags)
                f   == call.flags[i]
            IN  /\ p.flags[i].value =
                      IF occ /= <<>> THEN occ[Len(occ)].value
                      ELSE IF f.envKey \in DOMAIN environ THEN environ[f.envKey]
                      ELSE f.defaultValue
                /\ p.flags[i].flag = KindParse(f.kind, p.flags[i].value)

\* A Parse that returned with a default, an environment value and a
\* command-line value all present for flag s, which holds the command-line value.
C1_Witness ==
    /\ Returned /\ p.err = NilErr /\ call.strict
    /\ call.flags[1].defaultValue = ValD
    /\ EnvS \in DOMAIN environ /\ environ[EnvS] = ValE
    /\ OccurrencesOf(1, call.args, call.flags) /= <<>>
    /\ p.flags[1].value = ValV

\* The four spellings of flag key with value v, followed by rest.
FourForms(key, v, rest) ==
    << <<Hyphen \o key, v>> \o rest,
       <<Hyphen \o key \o <<"=">> \o v>> \o rest,
       <<DoubleHyphen \o key, v>> \o rest,
       <<DoubleHyphen \o key \o <<"=">> \o v>> \o rest >>

\* The keys of the string-kind flags of the call.
StringKeys ==
    {k \in FlagKeys(call.flags) : KindHasArg(call.flags[FlagLookup(call.flags, k)].kind)}

\* The arguments of the call are the space-separated spelling -key v rest.
SpacedForm(key) ==
    /\ Len(call.args) >= 2
    /\ call.args[1] \in {Hyphen \o key, DoubleHyphen \o key}

\* The call returned or panicked.
Ended == p.pc \in {"done", "panic"}

AllFormsAgree(key, v, rest) ==
    \A j \in 1..4 :
        Outcome(Parse(FourForms(key, v, rest)[j], call.flags, call.strict, environ))
            = Outcome(p)

\* C2 as stated: for a string-kind flag and every value v the four spellings
\* -f v, -f=v, --f v, --f=v followed by the same tokens give the same outcome.
C2_AnyValue ==
    Ended =>
        \A key \in StringKeys :
            SpacedForm(key) =>
                AllFormsAgree(key, call.args[2], SubSeq(call.args, 3, Len(call.args)))

\* C2 amended: the four spellings give the same outcome for every non-empty
\* value v that does not lead with a hyphen.
C2_WordValue ==
    Ended =>
        \A key \in StringKeys :
            (SpacedForm(key) /\ call.args[2] /= <<>> /\ ~LeadsWithHyphen(call.args[2])) =>
                AllFormsAgree(key, call.args[2], SubSeq(call.args, 3, Len(call.args)))

\* A Parse of "--s v <more tokens>" that returned with s holding v.
C2_Witness ==
    /\ Returned /\ p.err = NilErr
    /\ Len(call.args) = 3
    /\ call.args[1] = DoubleHyphen \o NameS /\ call.args[2] = ValV
    /\ p.flags[1].value = ValV /\ p.flags[1].count = 1

\* C3: in strict mode, once the scan opens an undefined flag (bare or in
\* key=value form, whatever precedes and follows it), Parse returns
\* UndefinedFlagError carrying that key.
C3_StrictUndefined ==
    (call.strict /\ Opens /\ ~FlagDefined(p.flags, OpenedKey)) =>
        /\ Final.pc = "done"
        /\ Final.err = ErrUndefinedFlag(OpenedKey)

\* A strict Parse that met the undefined flag u after the defined flag s and
\* returned the undefined-flag error.
C3_Witness ==
    /\ Returned /\ call.strict
    /\ p.err = ErrUndefinedFlag(NameU)
    /\ Len(call.args) = 3
    /\ call.args[1] = Hyphen \o NameS /\ call.args[2] = ValV
    /\ call.args[3] = Hyphen \o NameU

\* Every token is a non-empty word that does not lead with a hyphen.
AllWords(args) == \A i \in 1..Len(args) : args[i] /= <<>> /\ ~LeadsWithHyphen(args[i])

\* C4 as stated: in lenient mode an undefined flag is skipped without error
\* and no positional argument is dropped.  The words after the undefined flag
\* are all returned (all but the first one, when the flag is bare and the first
\* word is read as its value).
C4_LenientKeepsPositionals ==
    (~call.strict /\ Opens /\ ~FlagDefined(p.flags, OpenedKey)
        /\ Len(p.args) >= (IF TokenHasValue(Head(p.args)) THEN 2 ELSE 3)
        /\ AllWords(Tail(p.args))) =>
        /\ Final.pc = "done" /\ Final.err = NilErr
        /\ \/ Final.args = Tail(p.args)
           \/ ~TokenHasValue(Head(p.args)) /\ Final.args = Tail(Tail(p.args))

\* C5: an argument-taking flag opened without =value and followed by the end
\* of input, a terminator or a token that leads with a hyphen makes Parse
\* return RequiresArgError naming the key, and sets no flag.
C5_RequiresArg ==
    (/\ Opens /\ ~TokenHasValue(Head(p.args))
     /\ FlagDefined(p.flags, OpenedKey)
     /\ KindHasArg(p.flags[FlagLookup(p.flags, OpenedKey)].kind)
     /\ \/ Len(p.args) = 1
        \/ Len(p.args) >= 2 /\ LeadsWithHyphen(p.args[2])) =>
        /\ Final.pc = "done"
        /\ Final.err = ErrRequiresArg(OpenedKey)
        /\ Final.flags = p.flags

\* A Parse of "-b --s -b" that returned the requires-argument error for s.
C5_Witness ==
    /\ Returned /\ p.err = ErrRequiresArg(NameS)
    /\ Len(call.args) = 3
    /\ call.args[1] = Hyphen \o NameB
    /\ call.args[2] = DoubleHyphen \o NameS
    /\ call.args[3] = Hyphen \o NameB
    /\ p.flags[1].count = 0 /\ p.flags[2].count = 1

\* C6: a successful Parse returns the token where scanning stops (the first
\* -, -- or token without a leading hyphen that is not a flag's value)
\* followed by all later tokens in input order, and the flags are as if the
\* input had ended before that token.
C6_ResidualIsSuffix ==
    (Returned /\ p.err = NilErr /\ call.strict) =>
        LET n == ScanLen(call.args, call.flags) IN
        /\ p.args = SubSeq(call.args, n + 1, Len(call.args))
        /\ p.flags = Parse(SubSeq(call.args, 1, n), call.flags, call.strict, environ).flags

\* A successful Parse of "-b v -s=v": scanning stopped at v and s is not Set.
C6_Witness ==
    /\ Returned /\ p.err = NilErr /\ call.strict
    /\ call.args = <<Hyphen \o NameB, ValV, Hyphen \o NameS \o <<"=">> \o ValV>>
    /\ p.args = <<ValV, Hyphen \o NameS \o <<"=">> \o ValV>>
    /\ environ = EmptyEnv
    /\ p.flags[1].count = 0 /\ p.flags[2].count = 1

\* C7: a no-argument flag opened without =value does not consume the next
\* token: Parse ends as if the flag had been Set to "true" and the scan
\* resumed, with no key pending, on the tokens after the flag token.
C7_BoolDoesNotConsume ==
    (/\ Opens /\ ~TokenHasValue(Head(p.args))
     /\ FlagDefined(p.flags, OpenedKey)
     /\ ~KindHasArg(p.flags[FlagLookup(p.flags, OpenedKey)].kind)) =>
        LET i == FlagLookup(p.flags, OpenedKey)
            resumed == [p EXCEPT !.args = Tail(p.args),
                                 !.flags[i] = FlagSet(p.flags[i], StrTrue)]
        IN  Outcome(Final) = Outcome(ParseRun(resumed, call.strict, environ))

\* A Parse of "-b v" that returned v as the first positional, with b Set to "true".
C7_Witness ==
    /\ Returned /\ p.err = NilErr
    /\ call.args = <<Hyphen \o NameB, ValV>>
    /\ p.args = <<ValV>>
    /\ EnvB \notin DOMAIN environ
    /\ p.flags[2].count = 1 /\ p.flags[2].value = StrTrue /\ p.flags[2].flag = TRUE

(***************************************************************************)
(* Strings, continued: case conversion, prefixes, byte order, sorting      *)
(***************************************************************************)

sep == "_"

\* mapper.Replace: each of . / - , becomes sep.
mapper(s) == [i \in 1..Len(s) |-> IF s[i] \in {".", "/", "-", ","} THEN sep ELSE s[i]]

\* strings.HasPrefix
HasPrefix(s, prefix) ==
    Len(prefix) <= Len(s) /\ SubSeq(s, 1, Len(prefix)) = prefix

\* strings.HasSuffix
HasSuffix(s, suffix) ==
    Len(suffix) <= Len(s) /\ SubSeq(s, Len(s) - Len(suffix) + 1, Len(s)) = suffix

\* The bytes that occur in the model's strings, in increasing byte value.
Bytes ==
    <<" ", "'", ",", "-", ".", "/", "0", "1", "2", "3", "4", "5", "6", "7", "8", "9", "=">>
    \o UpperLetters \o <<"_">> \o LowerLetters

\* Go's < on strings: byte-wise lexicographic order.
StringLess(a, b) ==
    \E i \in 1..(Len(b)) :
        /\ i <= Len(a) + 1
        /\ \A j \in 1..(i-1) : a[j] = b[j]
        /\ \/ i = Len(a) + 1
           \/ LetterIndex(Bytes, a[i]) < LetterIndex(Bytes, b[i])

\* The position of the first least string of a non-empty list.
LeastIndex(xs) ==
    CHOOSE i \in 1..Len(xs) :
        /\ \A j \in 1..Len(xs) : ~StringLess(xs[j], xs[i])
        /\ \A j \in 1..(i-1) : StringLess(xs[i], xs[j])

RECURSIVE SortStrings(_)
\* sort.Strings: the list in increasing order, duplicates kept.
SortStrings(xs) ==
    IF xs = <<>> THEN <<>>
    ELSE LET i == LeastIndex(xs) IN
         <<xs[i]>> \o SortStrings(SubSeq(xs, 1, i - 1) \o SubSeq(xs, i + 1, Len(xs)))

(***************************************************************************)
(* levenshtein                                                             *)
(***************************************************************************)

similarThreshold == 5

\* min(xs...)
min(xs) == CHOOSE m \in Range(xs) : \A x \in Range(xs) : m <= x

RECURSIVE levenshteinRowNoMatch(_, _, _, _, _)
\* A mutation of levenshteinRow: equal bytes cost 1 as well.
levenshteinRowNoMatch(c, t, v0, v1, j) ==
    IF j >= Len(t) THEN v1
    ELSE levenshteinRowNoMatch(c, t, v0,
             [v1 EXCEPT ![j + 2] = min(<<v1[j + 1] + 1, v0[j + 2] + 1, v0[j + 1] + 1>>)],
             j + 1)

RECURSIVE levenshteinRow(_, _, _, _, _)
\* The inner loop over j (0-based) for the byte c = s[i]: v1[j+1] is filled
\* from v1[j], v0[j+1] and v0[j].  Go index k is position k+1 here.
levenshteinRow(c, t, v0, v1, j) ==
    IF j >= Len(t) THEN v1
    ELSE LET cost == IF c /= t[j + 1] THEN 1 ELSE 0
             x    == min(<<v1[j + 1] + 1, v0[j + 2] + 1, v0[j + 1] + cost>>)
         IN  levenshteinRow(c, t, v0, [v1 EXCEPT ![j + 2] = x], j + 1)

RECURSIVE levenshteinRows(_, _, _, _, _)
\* The outer loop over i (0-based): v1[0] = i+1, the inner loop, v0 = v1.
levenshteinRows(s, t, v0, v1, i) ==
    IF i >= Len(s) THEN v1
    ELSE LET row == levenshteinRow(s[i + 1], t, v0, [v1 EXCEPT ![1] = i + 1], 0)
         IN  levenshteinRows(s, t, row, row, i + 1)

\* levenshtein(s, t)
levenshtein(s, t) ==
    IF s = t THEN 0
    ELSE IF Len(s) = 0 THEN Len(t)
    ELSE IF Len(t) = 0 THEN Len(s)
    ELSE levenshteinRows(s, t, [j \in 1..(Len(t) + 1) |-> j - 1],
                         [j \in 1..(Len(t) + 1) |-> 0], 0)[Len(t) + 1]

(***************************************************************************)
(* Errors, continued                                                       *)
(***************************************************************************)

ErrExitFailure == [type |-> "ErrExitFailure", arg |-> <<>>]
ErrUsage == [type |-> "ErrUsage", arg |-> <<>>]

\* fmt.Errorf("Duplicate flag '%s'.", f.name)
ErrDuplicateFlag(name) == [type |-> "Duplicate flag", arg |-> name]

\* fmt.Errorf("Duplicate short flag '%s' for '%s'.", f.alias, f.name)
ErrDuplicateShortFlag(alias, name) ==
    [type |-> "Duplicate short flag", arg |-> alias \o <<" ">> \o name]

\* A domain error returned by an application's handler.
errCommandFailure == [type |-> "errCommandFailure", arg |-> <<>>]

\* An error of the usage file system that is not a *fs.PathError.
errUsageRead == [type |-> "errUsageRead", arg |-> <<>>]

(***************************************************************************)
(* Command                                                                 *)
(*                                                                         *)
(* A Handler is named by an identifier: "nil" is the nil handler, "ok",    *)
(* "fail", "usage" and "exit" are application handlers returning nil, a    *)
(* domain error, ErrUsage and ErrExitFailure, and "defaultHelpHandler",    *)
(* "defaultDefaultHandler" and "versionHandler" are the built-in ones.  A  *)
(* middleware is named by an identifier too; the handler it returns logs   *)
(* its entry, calls the handler it wraps and logs its exit.  A built       *)
(* handler is the list of the middleware that wrap it, outermost first,    *)
(* followed by the raw handler.                                            *)
(***************************************************************************)

EmptyMap == [k \in {} |-> <<>>]

\* The CommandOption values Alias(name), Proxy() and WithMiddleware(middleware...).
Alias(name) == [opt |-> "Alias", name |-> name, middleware |-> <<>>]
Proxy == [opt |-> "Proxy", name |-> <<>>, middleware |-> <<>>]
WithMiddleware(middleware) == [opt |-> "WithMiddleware", name |-> <<>>, middleware |-> middleware]

\* option(c) for one CommandOption.
ApplyCommandOption(cmd, o) ==
    CASE o.opt = "Alias" -> [cmd EXCEPT !.alias = o.name]
      [] o.opt = "Proxy" -> [cmd EXCEPT !.proxy = TRUE]
      [] o.opt = "WithMiddleware" -> [cmd EXCEPT !.middleware = @ \o o.middleware]

RECURSIVE ApplyCommandOptions(_, _)
\* for _, option := range opts { option(c) }
ApplyCommandOptions(cmd, opts) ==
    IF opts = <<>> THEN cmd
    ELSE ApplyCommandOptions(ApplyCommandOption(cmd, Head(opts)), Tail(opts))

\* A mutation of build: h is wrapped by middleware[0] first, so that the last
\* middleware is outermost.
buildFromFirst(cmd, h) ==
    [cmd EXCEPT !.handler =
        [i \in 1..Len(cmd.middleware) |-> cmd.middleware[Len(cmd.middleware) + 1 - i]] \o <<h>>]

\* Command.build: h wrapped by middleware[n-1], then by middleware[n-2], ...,
\* so that middleware[0] is outermost.
build(cmd, h) == [cmd EXCEPT !.handler = cmd.middleware \o <<h>>]

\* NewCommand(name, handler, flags, opts...)
NewCommand(name, handler, flags, opts) ==
    build(ApplyCommandOptions([ name       |-> name,
                                alias      |-> <<>>,
                                proxy      |-> FALSE,
                                flags      |-> flags,
                                handler    |-> <<"nil">>,
                                middleware |-> <<>> ], opts),
          handler)

(***************************************************************************)
(* CLI: New, Add, Use                                                      *)
(***************************************************************************)

\* A mutation of Add: a name that is already in the command table is not rejected.
AddOverwrites(c, name, handler, flags, opts) ==
    LET lname == ToLower(name)
        cmd   == NewCommand(lname, handler, flags, <<WithMiddleware(c.middleware)>> \o opts)
        c1    == [c EXCEPT !.commands = (lname :> cmd) @@ @]
    IN  IF handler = "nil"
        THEN [cli |-> c, panic |-> "cli: command has nil handler"]
        ELSE IF cmd.alias /= <<>>
        THEN IF cmd.alias \in DOMAIN c1.commands
             THEN [cli |-> c1, panic |-> "cli: duplicate command alias"]
             ELSE [cli |-> [c1 EXCEPT !.commands = (cmd.alias :> cmd) @@ @], panic |-> ""]
        ELSE [cli |-> c1, panic |-> ""]

\* A mutation of Add: the name is stored as it is given.
AddVerbatim(c, name, handler, flags, opts) ==
    LET cmd == NewCommand(name, handler, flags, <<WithMiddleware(c.middleware)>> \o opts)
        c1  == [c EXCEPT !.commands = (name :> cmd) @@ @]
    IN  IF handler = "nil"
        THEN [cli |-> c, panic |-> "cli: command has nil handler"]
        ELSE IF name \in DOMAIN c.commands
        THEN [cli |-> c, panic |-> "cli: duplicate command"]
        ELSE IF cmd.alias /= <<>>
        THEN IF cmd.alias \in DOMAIN c1.commands
             THEN [cli |-> c1, panic |-> "cli: duplicate command alias"]
             ELSE [cli |-> [c1 EXCEPT !.commands = (cmd.alias :> cmd) @@ @], panic |-> ""]
        ELSE [cli |-> c1, panic |-> ""]

\* CLI.Add(name, handler, flags, opts...): the CLI after the call and the
\* panic it ended with ("" when it returned).  The command is stored under
\* its name before the alias is looked up.
Add(c, name, handler, flags, opts) ==
    LET lname == ToLower(name)
        cmd   == NewCommand(lname, handler, flags, <<WithMiddleware(c.middleware)>> \o opts)
        c1    == [c EXCEPT !.commands = (lname :> cmd) @@ @]
    IN  IF handler = "nil"
        THEN [cli |-> c, panic |-> "cli: command has nil handler"]
        ELSE IF lname \in DOMAIN c.commands
        THEN [cli |-> c, panic |-> "cli: duplicate command"]
        ELSE IF cmd.alias /= <<>>
        THEN IF cmd.alias \in DOMAIN c1.commands
             THEN [cli |-> c1, panic |-> "cli: duplicate command alias"]
             ELSE [cli |-> [c1 EXCEPT !.commands = (cmd.alias :> cmd) @@ @], panic |-> ""]
        ELSE [cli |-> c1, panic |-> ""]

\* The options of New: Prefix, Scope, Version, Help, Default and Resolver,
\* <<>> or "nil" standing for an option that is not given.
NoOptions ==
    [ prefix |-> <<>>, scope |-> <<>>, version |-> <<>>,
      helpHandler |-> "nil", defaultHandler |-> "nil", resolve |-> "nil" ]

\* New(name, usage, flags, opts...).  The usage file system is the function
\* from the names it can open to "ok" (the file is read) or "err" (the read
\* fails with an error that is not a *fs.PathError); every other name fails
\* with a *fs.PathError, which is all nilUsage does.
New(name, usage, flags, opts) ==
    LET c0 == [ name           |-> name,
                prefix         |-> IF opts.prefix = <<>> THEN name ELSE opts.prefix,
                usage          |-> usage,
                scope          |-> IF opts.scope /= <<>> /\ ~HasSuffix(opts.scope, <<"/">>)
                                   THEN opts.scope \o <<"/">> ELSE opts.scope,
                flags          |-> flags,
                flagsMap       |-> {},
                commands       |-> EmptyMap,
                middleware     |-> <<>>,
                version        |-> opts.version,
                helpHandler    |-> IF opts.helpHandler = "nil"
                                   THEN "defaultHelpHandler" ELSE opts.helpHandler,
                defaultHandler |-> IF opts.defaultHandler = "nil"
                                   THEN "defaultDefaultHandler" ELSE opts.defaultHandler,
                resolve        |-> IF opts.resolve = "nil"
                                   THEN "defaultResolver" ELSE opts.resolve ]
        c1 == Add(c0, <<"h","e","l","p">>, c0.helpHandler, <<>>, <<>>).cli
    IN  IF c1.version /= <<>>
        THEN Add(c1, <<"v","e","r","s","i","o","n">>, "versionHandler", <<>>, <<>>).cli
        ELSE c1

\* A mutation of Use: the middleware also wraps the commands already added.
UseWrapsAdded(c, middleware) ==
    [c EXCEPT !.middleware = c.middleware \o middleware,
              !.commands = [k \in DOMAIN c.commands |->
                               [c.commands[k] EXCEPT
                                   !.handler = middleware \o c.commands[k].handler]]]

\* CLI.Use(middleware...)
Use(c, middleware) == [c EXCEPT !.middleware = @ \o middleware]

(***************************************************************************)
(* CLI: Usage, the built-in handlers, Run                                  *)
(*                                                                         *)
(* What a call does besides returning is kept as a list of events, in the  *)
(* order they happen: a write to a stream (ev is the stream, id the format *)
(* string, args its arguments), a call of CLI.parse (ev "parse", id the    *)
(* flag scope, args the argument list), the entry into and exit from a     *)
(* middleware, a call of a command's raw handler (ev "command"), of the    *)
(* default handler (ev "default") and of the resolver (ev "resolve").      *)
(***************************************************************************)

Event(ev, id, args) == [ev |-> ev, id |-> id, args |-> args]

\* fmt.Fprintf(w, format, args...)
Fprintf(w, format, args) == Event(w, format, args)

\* CLI.Errorf
Errorf(format, args) == Fprintf("stderr", format, args)

\* CLI.Printf
Printf(format, args) == Fprintf("stdout", format, args)

\* CLI.Usage(w, name): the error returned and the writes made.  The bytes of
\* a usage file are named by the key they were read under.
Usage(c, w, name) ==
    LET key == IF name \in DOMAIN c.commands THEN c.scope \o name ELSE name IN
    IF key \in DOMAIN c.usage
    THEN IF c.usage[key] = "ok"
         THEN [err |-> NilErr, out |-> <<Fprintf(w, "usage", <<key>>)>>]
         ELSE [err |-> errUsageRead, out |-> <<>>]
    ELSE [ err |-> ErrExitFailure,
           out |-> << IF name = <<>> \/ name = c.scope
                      THEN Errorf("Unknown help topic.", <<>>)
                      ELSE Errorf("Unknown help topic '%s'.", <<name>>),
                      Errorf("Run '%s help' for usage information.", <<c.name>>) >> ]

\* A mutation of defaultHelpHandler: with more than one argument the usage of
\* the first is printed.
defaultHelpHandlerFirstTopic(c, args) ==
    IF Len(args) = 0 THEN Usage(c, "stdout", c.scope) ELSE Usage(c, "stdout", args[1])

\* CLI.defaultHelpHandler(args)
defaultHelpHandler(c, args) ==
    IF Len(args) = 0 THEN Usage(c, "stdout", c.scope)
    ELSE IF Len(args) /= 1
    THEN [ err |-> ErrExitFailure,
           out |-> << Errorf("Too many arguments given.", <<>>),
                      Errorf("Run '%s help' for usage information.", <<c.name>>),
                      Errorf("Run '%s help [command]' for more information about a command.",
                             <<c.name>>) >> ]
    ELSE Usage(c, "stdout", args[1])

\* CLI.defaultDefaultHandler(args)
defaultDefaultHandler(c, args) == [err |-> ErrUsage, out |-> <<>>]

\* CLI.versionHandler(args)
versionHandler(c, args) == [err |-> NilErr, out |-> <<Printf("%s", <<c.version>>)>>]

\* The call h(args) of the raw handler named h, made as a command (site
\* "command") or as the default handler (site "default"): the call is
\* logged ahead of what the handler writes.
CallHandler(c, site, h, args) ==
    [ (CASE h = "defaultHelpHandler" -> defaultHelpHandler(c, args)
         [] h = "defaultDefaultHandler" -> defaultDefaultHandler(c, args)
         [] h = "versionHandler" -> versionHandler(c, args)
         [] h = "ok" -> [err |-> NilErr, out |-> <<>>]
         [] h = "fail" -> [err |-> errCommandFailure, out |-> <<>>]
         [] h = "usage" -> [err |-> ErrUsage, out |-> <<>>]
         [] h = "exit" -> [err |-> ErrExitFailure, out |-> <<>>])
      EXCEPT !.out = <<Event(site, h, args)>> \o @ ]

RECURSIVE Invoke(_, _, _, _)
\* The call handler(args) of a built handler: each middleware in turn, then
\* the raw handler; a middleware passes on the error of the handler it wraps.
Invoke(c, site, handler, args) ==
    IF Len(handler) = 1 THEN CallHandler(c, site, handler[1], args)
    ELSE [ Invoke(c, site, Tail(handler), args)
           EXCEPT !.out = <<Event("enter", Head(handler), args)>> \o @
                          \o <<Event("exit", Head(handler), args)>> ]

RECURSIVE initFlagsFromRawKey(_, _, _, _)
\* A mutation of initFlagsFrom: the derived key is not passed to mapper.
initFlagsFromRawKey(prefix, m, flags, i) ==
    IF i > Len(flags) THEN [flagsMap |-> m, flags |-> flags, err |-> NilErr]
    ELSE IF flags[i].name \in m
    THEN [flagsMap |-> m, flags |-> flags, err |-> ErrDuplicateFlag(flags[i].name)]
    ELSE IF flags[i].alias /= <<>> /\ flags[i].alias \in (m \cup {flags[i].name})
    THEN [ flagsMap |-> m \cup {flags[i].name}, flags |-> flags,
           err |-> ErrDuplicateShortFlag(flags[i].alias, flags[i].name) ]
    ELSE initFlagsFromRawKey(prefix,
             m \cup {flags[i].name}
               \cup (IF flags[i].alias /= <<>> THEN {flags[i].alias} ELSE {}),
             [flags EXCEPT ![i] =
                 IF flags[i].envKey = <<>>
                 THEN [flags[i] EXCEPT
                          !.envKey = ToUpper(prefix \o <<"_">> \o flags[i].name)]
                 ELSE flags[i]],
             i + 1)

RECURSIVE initFlagsFrom(_, _, _, _)
\* The loop of CLI.initFlags from flags[i] on, m being the keys of c.flagsMap.
initFlagsFrom(prefix, m, flags, i) ==
    IF i > Len(flags) THEN [flagsMap |-> m, flags |-> flags, err |-> NilErr]
    ELSE LET f == flags[i] IN
         IF f.name \in m
         THEN [flagsMap |-> m, flags |-> flags, err |-> ErrDuplicateFlag(f.name)]
         ELSE IF f.alias /= <<>> /\ f.alias \in (m \cup {f.name})
         THEN [ flagsMap |-> m \cup {f.name}, flags |-> flags,
                err |-> ErrDuplicateShortFlag(f.alias, f.name) ]
         ELSE initFlagsFrom(prefix,
                  m \cup {f.name} \cup (IF f.alias /= <<>> THEN {f.alias} ELSE {}),
                  [flags EXCEPT ![i] =
                      IF f.envKey = <<>>
                      THEN [f EXCEPT !.envKey = mapper(ToUpper(prefix \o <<"_">> \o f.name))]
                      ELSE f],
                  i + 1)

\* A mutation of initFlags: every call starts from an empty flag map.
initFlagsFresh(c, flags) == initFlagsFrom(c.prefix, {}, flags, 1)

\* CLI.initFlags(flags).  The flag map only ever answers whether a key is
\* present, so it is kept as the set of its keys.
initFlags(c, flags) == initFlagsFrom(c.prefix, c.flagsMap, flags, 1)

\* What CLI.parse returns once Parse has ended in q: the flags as Parse left
\* them, the residual arguments, the error, and the run-time panic if any.
parseEnd(m, q) ==
    [ flagsMap |-> m, flags |-> q.flags, args |-> q.args, err |-> q.err,
      panic |-> IF q.pc = "panic" THEN "runtime error: index out of range" ELSE "" ]

\* CLI.parse after initFlags has returned r: return nil, err, or
\* Parse(args[1:], flags).  The Parse of this file takes no policy
\* argument and is the strict parser.
parseInit(r, args, env) ==
    IF r.err /= NilErr
    THEN [flagsMap |-> r.flagsMap, flags |-> r.flags, args |-> <<>>, err |-> r.err,
          panic |-> ""]
    ELSE parseEnd(r.flagsMap, Parse(Tail(args), r.flags, TRUE, env))

\* CLI.parse(args, flags)
parse(c, args, flags, env) == parseInit(initFlags(c, flags), args, env)

RECURSIVE SetToSeq(_)
\* The elements of a finite set in some order (the order of a map iteration).
SetToSeq(S) ==
    IF S = {} THEN <<>> ELSE LET x == CHOOSE x \in S : TRUE IN <<x>> \o SetToSeq(S \ {x})

\* The writes of commandNotFound for the sorted list similar.
commandNotFoundOut(c, name, similar) ==
    << Errorf("Unknown command '%s'.", <<name>>),
       Errorf("Run '%s help' for usage information.", <<c.name>>) >>
    \o (IF Len(similar) > 0
        THEN <<Errorf("Did you mean?", <<>>)>>
             \o [i \in 1..Len(similar) |-> Errorf("    %s", <<similar[i]>>)]
             \o <<Errorf("", <<>>)>>
        ELSE <<>>)

\* The names of the commands stored under the keys ks.
commandNames(c, ks) == [i \in 1..Len(ks) |-> c.commands[ks[i]].name]

\* A mutation of commandNotFound: the unknown command is reported as a success.
commandNotFoundNil(c, name) ==
    LET near(k) == (IF HasPrefix(c.commands[k].name, name) THEN 0
                    ELSE levenshtein(name, c.commands[k].name)) < similarThreshold
    IN  [ err |-> NilErr,
          out |-> commandNotFoundOut(c, name,
                      SortStrings(commandNames(c,
                          SelectSeq(SetToSeq(DOMAIN c.commands), near)))) ]

\* A mutation of commandNotFound: a name at the threshold is similar too.
commandNotFoundAtThreshold(c, name) ==
    LET near(k) == (IF HasPrefix(c.commands[k].name, name) THEN 0
                    ELSE levenshtein(name, c.commands[k].name)) <= similarThreshold
    IN  [ err |-> ErrExitFailure,
          out |-> commandNotFoundOut(c, name,
                      SortStrings(commandNames(c,
                          SelectSeq(SetToSeq(DOMAIN c.commands), near)))) ]

\* CLI.commandNotFound(name): one candidate per entry of the command table.
commandNotFound(c, name) ==
    LET near(k) == (IF HasPrefix(c.commands[k].name, name) THEN 0
                    ELSE levenshtein(name, c.commands[k].name)) < similarThreshold
    IN  [ err |-> ErrExitFailure,
          out |-> commandNotFoundOut(c, name,
                      SortStrings(commandNames(c,
                          SelectSeq(SetToSeq(DOMAIN c.commands), near)))) ]

\* A mutation of WithCommandFlags: the parse reaches the flags of every
\* command that has flags.
WithCommandFlagsOfAll(commands, name, flags) ==
    [k \in DOMAIN commands |->
        IF commands[k].name = name \/ Len(commands[k].flags) = Len(flags)
        THEN [commands[k] EXCEPT !.flags = flags]
        ELSE commands[k]]

\* The command table after the flags of the command named name have been
\* parsed: every key of that command (its name, its alias) shares the flags.
WithCommandFlags(commands, name, flags) ==
    [k \in DOMAIN commands |->
        IF commands[k].name = name THEN [commands[k] EXCEPT !.flags = flags]
        ELSE commands[k]]

\* What run returns: the CLI as the call left it, the name and error
\* returned, the panic it ended with ("" when it returned) and the events.
runEnd(c, name, err, panic, out) ==
    [cli |-> c, name |-> name, err |-> err, panic |-> panic, out |-> out]

\* A mutation of runHandled: the value the handler returned is dropped.
runHandledDropsError(c, name, out, h) == runEnd(c, name, NilErr, "", out \o h.out)

\* run after a handler has been called and has returned h.
runHandled(c, name, out, h) == runEnd(c, name, h.err, "", out \o h.out)

\* A mutation of runCommand: the handler is called whatever the command-scope
\* parse returned.
runCommandIgnoresParseError(c, name, cmd, out, k) ==
    IF k.panic /= ""
    THEN runEnd([c EXCEPT !.flagsMap = k.flagsMap,
                          !.commands = WithCommandFlags(@, cmd.name, k.flags)],
                name, NilErr, k.panic, out)
    ELSE runHandled([c EXCEPT !.flagsMap = k.flagsMap,
                              !.commands = WithCommandFlags(@, cmd.name, k.flags)],
                    name, out,
                    Invoke([c EXCEPT !.flagsMap = k.flagsMap,
                                     !.commands = WithCommandFlags(@, cmd.name, k.flags)],
                           "command", cmd.handler, k.args))

\* run after the command-scope parse of cmd has returned k: the flag map and
\* the command's flags are as the parse left them.
runCommand(c, name, cmd, out, k) ==
    LET c2 == [c EXCEPT !.flagsMap = k.flagsMap,
                        !.commands = WithCommandFlags(@, cmd.name, k.flags)]
    IN  IF k.panic /= "" THEN runEnd(c2, name, NilErr, k.panic, out)
        ELSE IF k.err /= NilErr THEN runEnd(c2, name, k.err, "", out)
        ELSE runHandled(c2, name, out, Invoke(c2, "command", cmd.handler, k.args))

\* A mutation of runDispatch: the command-scope parse of a command that is
\* not a Proxy recognises the global flags too.
runDispatchGlobalAfter(c, args, out, env) ==
    IF Len(args) < 1
    THEN runHandled(c, <<>>, out, CallHandler(c, "default", c.defaultHandler, args))
    ELSE IF args[1] \notin DOMAIN c.commands
    THEN runHandled(c, <<>>, out, commandNotFound(c, args[1]))
    ELSE IF c.commands[args[1]].proxy
    THEN runHandled(c, args[1], out,
                    Invoke(c, "command", c.commands[args[1]].handler, Tail(args)))
    ELSE runCommand(c, args[1], c.commands[args[1]],
                    out \o <<Event("parse", "command", Tail(args))>>,
                    parseEnd(initFlags(c, c.commands[args[1]].flags).flagsMap,
                             Parse(Tail(args),
                                   initFlags(c, c.commands[args[1]].flags).flags \o c.flags,
                                   TRUE, env)))

\* A mutation of runDispatch: the command-scope parse is made for a Proxy
\* command too.
runDispatchParsesProxy(c, args, out, env) ==
    IF Len(args) < 1
    THEN runHandled(c, <<>>, out, CallHandler(c, "default", c.defaultHandler, args))
    ELSE IF args[1] \notin DOMAIN c.commands
    THEN runHandled(c, <<>>, out, commandNotFound(c, args[1]))
    ELSE runCommand(c, args[1], c.commands[args[1]],
                    out \o <<Event("parse", "command", Tail(args))>>,
                    parse(c, args, c.commands[args[1]].flags, env))

\* run after the global-scope parse has returned: c holds the global flags
\* and the flag map as the parse left them, args is the residual list.
runDispatch(c, args, out, env) ==
    IF Len(args) < 1
    THEN runHandled(c, <<>>, out, CallHandler(c, "default", c.defaultHandler, args))
    ELSE IF args[1] \notin DOMAIN c.commands
    THEN runHandled(c, <<>>, out, commandNotFound(c, args[1]))
    ELSE IF c.commands[args[1]].proxy
    THEN runHandled(c, args[1], out,
                    Invoke(c, "command", c.commands[args[1]].handler, Tail(args)))
    ELSE runCommand(c, args[1], c.commands[args[1]],
                    out \o <<Event("parse", "command", Tail(args))>>,
                    parse(c, args, c.commands[args[1]].flags, env))

\* run after the global-scope parse has returned g.
runGlobal(c, out, g, env) ==
    LET c1 == [c EXCEPT !.flags = g.flags, !.flagsMap = g.flagsMap] IN
    IF g.panic /= "" THEN runEnd(c1, <<>>, NilErr, g.panic, out)
    ELSE IF g.err /= NilErr THEN runEnd(c1, <<>>, g.err, "", out)
    ELSE runDispatch(c1, g.args, out, env)

\* CLI.run(args)
run(c, args, env) ==
    runGlobal(c, <<Event("parse", "global", Tail(args))>>, parse(c, args, c.flags, env), env)

RECURSIVE TrimEmptyTail(_)
\* for len(args) > 1 && args[len(args)-1] == "" { args = args[:len(args)-1] }
TrimEmptyTail(args) ==
    IF Len(args) > 1 /\ args[Len(args)] = <<>>
    THEN TrimEmptyTail(SubSeq(args, 1, Len(args) - 1))
    ELSE args

\* The argument list run is called with, for a non-nil args.
RunArgs(c, args) == TrimEmptyTail(IF Len(args) = 0 THEN <<c.name>> ELSE args)

\* A mutation of resolve: the resolver is called twice.
resolveTwice(c, err) ==
    <<Event("resolve", err.type, <<err.arg>>), Event("resolve", err.type, <<err.arg>>)>>

\* c.resolve(err): the call of the resolver, and what the built-in one prints.
resolve(c, err) ==
    <<Event("resolve", err.type, <<err.arg>>)>>
    \o (IF c.resolve = "defaultResolver" THEN <<Errorf("%v", <<err.arg>>)>> ELSE <<>>)

\* What Run returns: the CLI as the call left it, the error returned, the
\* panic it ended with ("" when it returned) and the events.
RunEnd(c, err, panic, out) == [cli |-> c, err |-> err, panic |-> panic, out |-> out]

\* Run after c.Usage(c.stderr, name) has returned u.
RunUsage(r, u) ==
    RunEnd(r.cli, IF u.err /= NilErr THEN u.err ELSE ErrExitFailure, "", r.out \o u.out)

\* A mutation of RunReturn: ErrUsage is not intercepted, it is returned as it is.
RunReturnNoUsage(r) ==
    IF r.panic /= "" \/ r.err = NilErr \/ r.err = ErrExitFailure \/ r.err = ErrUsage
    THEN RunEnd(r.cli, r.err, r.panic, r.out)
    ELSE RunEnd(r.cli, r.err, "", r.out \o resolve(r.cli, r.err))

\* Run after c.run(args) has returned r (or panicked).
RunReturn(r) ==
    IF r.panic /= "" \/ r.err = NilErr \/ r.err = ErrExitFailure
    THEN RunEnd(r.cli, r.err, r.panic, r.out)
    ELSE IF r.err = ErrUsage THEN RunUsage(r, Usage(r.cli, "stderr", r.name))
    ELSE RunEnd(r.cli, r.err, "", r.out \o resolve(r.cli, r.err))

\* CLI.Run(args) for a non-nil args.
Run(c, args, env) == RunReturn(run(c, RunArgs(c, args), env))

(***************************************************************************)
(* The CLI as a state machine: an application is constructed with New and  *)
(* then receives calls of Add, Use and Run, in any order, on inputs drawn  *)
(* from small sets.  A panic of Add or Run is recovered by the caller, as  *)
(* the package's tests do, and leaves the CLI as the call left it.         *)
(***************************************************************************)

MaxCalls == 3

AppName == <<"a","p","p">>
CmdHelp == <<"h","e","l","p">>
CmdX == <<"x">>
CmdY == <<"y">>
CmdZ == <<"z">>
CmdW == <<"w">>
NameG == <<"g">>
ScopeCli == <<"c","l","i">>

\* A usage file system with the root topic and the topic of command x, with
\* and without a scope, as testUsage has them.
UsageDocs ==
    [k \in {<<>>, CmdX, ScopeCli \o <<"/">>, ScopeCli \o <<"/">> \o CmdX} |-> "ok"]

\* A usage file system whose root topic and whose topic of the command x
\* under the scope cannot be read.
UsageBroken == [k \in {<<>>, ScopeCli \o <<"/">> \o CmdX} |-> "err"]

GlobalFlags ==
    << NewFlag(NameG, "string", <<>>, <<>>, <<>>),
       NewFlag(NameB, "bool", <<>>, EnvB, <<>>) >>

CommandFlags == << NewFlag(NameS, "string", AliasA, EnvS, ValD) >>

\* The flags of a command that names a flag as the global scope does.
SharedFlags == << NewFlag(NameG, "bool", <<>>, <<>>, <<>>) >>

\* The calls of New: the plain application, one without usage (nil) and
\* with a version and a resolver, one with a scope whose root usage cannot
\* be read, and one with its own default handler and prefix.
NewCalls ==
    { [name |-> AppName, usage |-> UsageDocs, flags |-> GlobalFlags, opts |-> NoOptions],
      [name |-> AppName, usage |-> EmptyMap, flags |-> <<>>,
       opts |-> [NoOptions EXCEPT !.version = <<"1">>, !.resolve = "resolver"]],
      [name |-> AppName, usage |-> UsageBroken, flags |-> GlobalFlags,
       opts |-> [NoOptions EXCEPT !.scope = ScopeCli]],
      [name |-> AppName, usage |-> UsageDocs, flags |-> <<>>,
       opts |-> [NoOptions EXCEPT !.defaultHandler = "fail", !.prefix = <<"p">>]] }

\* The calls of Add.
AddCalls ==
    { [name |-> CmdX, handler |-> "ok", flags |-> CommandFlags, opts |-> <<>>],
      [name |-> <<"X">>, handler |-> "usage", flags |-> <<>>, opts |-> <<Alias(CmdY)>>],
      [name |-> CmdZ, handler |-> "fail", flags |-> <<>>, opts |-> <<Alias(CmdX)>>],
      [name |-> CmdHelp, handler |-> "ok", flags |-> <<>>, opts |-> <<>>],
      [name |-> CmdZ, handler |-> "nil", flags |-> <<>>, opts |-> <<>>],
      [name |-> CmdY, handler |-> "exit", flags |-> CommandFlags,
       opts |-> <<Proxy, WithMiddleware(<<"c1", "c2">>)>>],
      [name |-> CmdW, handler |-> "ok", flags |-> SharedFlags, opts |-> <<Alias(CmdY)>>] }

\* The calls of Use.
UseCalls == { <<"g1", "g2">> }

\* The calls of Run: the argument lists, program name first.
RunCalls ==
    { <<>>,
      <<AppName>>,
      <<AppName, <<>>>>,
      <<AppName, Hyphen>>,
      <<AppName, CmdX>>,
      <<AppName, CmdY>>,
      <<AppName, CmdZ>>,
      <<AppName, <<"X">>>>,
      <<AppName, <<"q">>>>,
      <<AppName, CmdHelp>>,
      <<AppName, CmdHelp, CmdX>>,
      <<AppName, CmdHelp, CmdX, CmdY>>,
      <<AppName, <<"v","e","r","s","i","o","n">>>>,
      <<AppName, <<"-","u">>>>,
      <<AppName, <<"-","g">>, <<>>>>,
      <<AppName, <<"-","g">>, <<>>, CmdX>>,
      <<AppName, <<"-","g">>, ValV>>,
      <<AppName, <<"-","g">>, ValV, <<"q">>>>,
      <<AppName, <<"-","b">>, CmdX, <<"-","s">>, ValV, ValV>>,
      <<AppName, CmdX, <<"-","g">>, ValV>>,
      <<AppName, CmdY, <<"-","s">>, DoubleHyphen, ValV>>,
      <<AppName, CmdY, <<"-","s">>, <<>>>>,
      <<AppName, <<"v","e","r","s","i","o">>>>,
      <<AppName, <<"-","g">>, ValV, CmdX, <<"-","g","=","d">>>> }

\* The inputs of a call, in one shape for the three operations.
Input(name, handler, flags, opts, middleware, args) ==
    [ name |-> name, handler |-> handler, flags |-> flags, opts |-> opts,
      middleware |-> middleware, args |-> args ]

Init ==
    /\ environ \in Envs
    /\ call = [args |-> <<>>, flags |-> <<>>, strict |-> TRUE]
    /\ p = ParseEntry(<<>>, <<>>)
    /\ \E n \in NewCalls : cli = New(n.name, n.usage, n.flags, n.opts)
    /\ ret = [ op |-> "New", n |-> 0,
               in |-> Input(<<>>, "nil", <<>>, <<>>, <<>>, <<>>),
               err |-> NilErr, panic |-> "", out |-> <<>> ]

\* app.Add(name, handler, flags, opts...)
CallAdd ==
    /\ ret.n < MaxCalls
    /\ \E a \in AddCalls :
       \E r \in {Add(cli, a.name, a.handler, a.flags, a.opts)} :
         /\ cli' = r.cli
         /\ ret' = [ op |-> "Add", n |-> ret.n + 1,
                     in |-> Input(a.name, a.handler, a.flags, a.opts, <<>>, <<>>),
                     err |-> NilErr, panic |-> r.panic, out |-> <<>> ]
    /\ UNCHANGED <<environ, call, p>>

\* app.Use(middleware...)
CallUse ==
    /\ ret.n < MaxCalls
    /\ \E m \in UseCalls :
         /\ cli' = Use(cli, m)
         /\ ret' = [ op |-> "Use", n |-> ret.n + 1,
                     in |-> Input(<<>>, "nil", <<>>, <<>>, m, <<>>),
                     err |-> NilErr, panic |-> "", out |-> <<>> ]
    /\ UNCHANGED <<environ, call, p>>

\* app.Run(args)
CallRun ==
    /\ ret.n < MaxCalls
    /\ \E args \in RunCalls :
       \E r \in {Run(cli, args, environ)} :
         /\ cli' = r.cli
         /\ ret' = [ op |-> "Run", n |-> ret.n + 1,
                     in |-> Input(<<>>, "nil", <<>>, <<>>, <<>>, args),
                     err |-> r.err, panic |-> r.panic, out |-> r.out ]
    /\ UNCHANGED <<environ, call, p>>

Next == CallAdd \/ CallUse \/ CallRun

Spec == Init /\ [][Next]_vars

(***************************************************************************)
(* What the claims about the dispatcher read off a call                    *)
(***************************************************************************)

\* The events of out that are of kind ev.
EventsOf(out, ev) == SelectSeq(out, LAMBDA e : e.ev = ev)

\* The alias the options of an Add ask for: the name of the last Alias option.
AliasAsked(opts) ==
    LET at == {i \in 1..Len(opts) : opts[i].opt = "Alias"} IN
    IF at = {} THEN <<>>
    ELSE opts[CHOOSE i \in at : \A j \in at : j <= i].name

\* The step is a call of op.
CallOf(op) == ret'.op = op /\ ret'.n = ret.n + 1

\* The global-scope parse of a Run on args, from the state before the call.
GlobalParse(args) == parse(cli, RunArgs(cli, args), cli.flags, environ)

\* The global-scope parse ends without error (and without panic).
GlobalParseOk(args) == GlobalParse(args).panic = "" /\ GlobalParse(args).err = NilErr

----------------------------------------------------------------------------
\* C8: Add fails fast, in the call itself and with nothing dispatched, when
\* the handler is nil, when the lower-cased name is already a key of the
\* command table (a registered name or alias), or when the alias asked for
\* is already a key of the command table: names and aliases share one table.
C8_AddFailsFast ==
    [][ ( /\ CallOf("Add")
          /\ \/ ret'.in.handler = "nil"
             \/ ToLower(ret'.in.name) \in DOMAIN cli.commands
             \/ /\ AliasAsked(ret'.in.opts) /= <<>>
                /\ AliasAsked(ret'.in.opts) \in DOMAIN cli.commands )
        => (ret'.panic /= "" /\ ret'.out = <<>>) ]_vars

\* C8 witness: an Add whose alias is the alias of a registered command (w
\* asks for y, which is the alias of x) has panicked.
C8_Witness ==
    /\ ret.op = "Add"
    /\ ret.in.name = CmdW
    /\ CmdY \in DOMAIN cli.commands
    /\ cli.commands[CmdY].name = CmdX
    /\ ret.panic = "cli: duplicate command alias"

----------------------------------------------------------------------------
\* The default handler was called exactly once, with no arguments, and no
\* command handler was called.
OnlyDefaultHandler(c, out) ==
    /\ EventsOf(out, "default") = <<Event("default", c.defaultHandler, <<>>)>>
    /\ EventsOf(out, "command") = <<>>

\* C9 as stated: when the global-scope parse leaves no positional argument,
\* Run calls the configured default handler and no command handler, and with
\* the built-in default handler the root usage is written to the error
\* stream and Run returns ErrExitFailure.
C9_RootUsageAlways ==
    [][ (CallOf("Run") /\ GlobalParseOk(ret'.in.args) /\ GlobalParse(ret'.in.args).args = <<>>)
        => /\ OnlyDefaultHandler(cli, ret'.out)
           /\ cli.defaultHandler = "defaultDefaultHandler"
              => /\ EventsOf(ret'.out, "stderr") = <<Fprintf("stderr", "usage", <<<<>>>>)>>
                 /\ ret'.err = ErrExitFailure ]_vars

\* C9, amended: when the global-scope parse leaves no positional argument,
\* Run calls the configured default handler and no command handler; with the
\* built-in default handler Run reads the root usage topic and, when the
\* usage source has it, writes it to the error stream and returns
\* ErrExitFailure; when the usage source has no such topic it writes the
\* unknown-help-topic notice to the error stream instead and returns
\* ErrExitFailure; when the read fails otherwise it writes nothing and
\* returns the read error.
C9_RootUsageIfReadable ==
    [][ (CallOf("Run") /\ GlobalParseOk(ret'.in.args) /\ GlobalParse(ret'.in.args).args = <<>>)
        => /\ OnlyDefaultHandler(cli, ret'.out)
           /\ ret'.panic = ""
           /\ cli.defaultHandler = "defaultDefaultHandler"
              => IF <<>> \notin DOMAIN cli.usage
                 THEN /\ EventsOf(ret'.out, "stderr") =
                            << Errorf("Unknown help topic.", <<>>),
                               Errorf("Run '%s help' for usage information.", <<cli.name>>) >>
                      /\ ret'.err = ErrExitFailure
                 ELSE IF cli.usage[<<>>] = "ok"
                 THEN /\ EventsOf(ret'.out, "stderr") = <<Fprintf("stderr", "usage", <<<<>>>>)>>
                      /\ ret'.err = ErrExitFailure
                 ELSE /\ EventsOf(ret'.out, "stderr") = <<>>
                      /\ ret'.err = errUsageRead ]_vars

\* C9 witness: a Run with nothing but a global flag and its value has called
\* the built-in default handler, written the root usage to the error stream
\* and returned ErrExitFailure.
C9_Witness ==
    /\ ret.op = "Run"
    /\ ret.in.args = <<AppName, <<"-","g">>, ValV>>
    /\ cli.defaultHandler = "defaultDefaultHandler"
    /\ EventsOf(ret.out, "default") /= <<>>
    /\ EventsOf(ret.out, "stderr") = <<Fprintf("stderr", "usage", <<<<>>>>)>>
    /\ ret.err = ErrExitFailure

----------------------------------------------------------------------------
\* C10: when the global-scope parse leaves a first positional token that is
\* not a key of the command table, Run reports the unknown command on the
\* error stream, returns ErrExitFailure, and calls no command handler, no
\* default handler and no command-scope parse.
C10_CommandNotFound ==
    [][ ( /\ CallOf("Run")
          /\ GlobalParseOk(ret'.in.args)
          /\ GlobalParse(ret'.in.args).args /= <<>>
          /\ Head(GlobalParse(ret'.in.args).args) \notin DOMAIN cli.commands )
        => /\ ret'.panic = ""
           /\ ret'.err = ErrExitFailure
           /\ Head(EventsOf(ret'.out, "stderr")) =
                  Errorf("Unknown command '%s'.", <<Head(GlobalParse(ret'.in.args).args)>>)
           /\ EventsOf(ret'.out, "command") = <<>>
           /\ EventsOf(ret'.out, "default") = <<>>
           /\ EventsOf(ret'.out, "parse") = <<Event("parse", "global", Tail(RunArgs(cli, ret'.in.args)))>>
      ]_vars

\* C10 witness: a Run whose first positional token after a global flag is
\* the unregistered name q has reported the unknown command and failed.
C10_Witness ==
    /\ ret.op = "Run"
    /\ ret.in.args = <<AppName, <<"-","g">>, ValV, <<"q">>>>
    /\ ret.err = ErrExitFailure
    /\ EventsOf(ret.out, "stderr") /= <<>>
    /\ Head(EventsOf(ret.out, "stderr")) = Errorf("Unknown command '%s'.", <<<<"q">>>>)

----------------------------------------------------------------------------
\* The value an application's handler returns: nil for "ok", the domain
\* error for "fail".
HandlerValue(h) == IF h = "ok" THEN NilErr ELSE errCommandFailure

\* C11: when the handler that Run dispatches to (a command's handler or the
\* configured default handler) returns success or a domain error, Run
\* returns that same value: nil for success, the same error otherwise.
C11_ResultUnchanged ==
    (ret.op = "Run" /\ ret.panic = "")
    => \A i \in 1..Len(ret.out) :
          (ret.out[i].ev \in {"command", "default"} /\ ret.out[i].id \in {"ok", "fail"})
          => ret.err = HandlerValue(ret.out[i].id)

\* C11 witness: a Run has dispatched to the command z, whose handler
\* returns a domain error, and has returned that error.
C11_Witness ==
    /\ ret.op = "Run"
    /\ ret.in.args = <<AppName, CmdZ>>
    /\ EventsOf(ret.out, "command") = <<Event("command", "fail", <<>>)>>
    /\ ret.err = errCommandFailure

----------------------------------------------------------------------------
\* The token that selects the command of a Run on args: the first residual
\* argument of the global-scope parse.
CommandToken(args) == Head(GlobalParse(args).args)

\* The global-scope parse of a Run on args leaves a registered command.
Dispatches(args) ==
    /\ GlobalParseOk(args)
    /\ GlobalParse(args).args /= <<>>
    /\ CommandToken(args) \in DOMAIN cli.commands

\* C12: when the handler of the dispatched command returns ErrUsage, Run
\* writes the usage topic of that command (its name under the scope) to the
\* error stream, returns ErrExitFailure and does not call the resolver.
\* Stated for a usage source that has the command's topic.
C12_UsageOfCommand ==
    [][ ( /\ CallOf("Run")
          /\ Dispatches(ret'.in.args)
          /\ EventsOf(ret'.out, "command") = <<Event("command", "usage", <<>>)>>
          /\ (cli.scope \o cli.commands[CommandToken(ret'.in.args)].name) \in DOMAIN cli.usage
          /\ cli.usage[cli.scope \o cli.commands[CommandToken(ret'.in.args)].name] = "ok" )
        => /\ EventsOf(ret'.out, "stderr") =
                << Fprintf("stderr", "usage",
                       <<cli.scope \o cli.commands[CommandToken(ret'.in.args)].name>>) >>
           /\ ret'.err = ErrExitFailure
           /\ EventsOf(ret'.out, "resolve") = <<>> ]_vars

\* The handler called by the Run that produced out returned ErrUsage.
ReturnedErrUsage(out) ==
    \E i \in 1..Len(out) :
        /\ out[i].ev \in {"command", "default"}
        /\ out[i].id \in {"usage", "defaultDefaultHandler"}

\* C13: a Run whose dispatch ends with an error other than nil, ErrUsage and
\* ErrExitFailure (a parse error, a command that is not found, a handler's
\* error) calls the resolver exactly once, with that error, and returns it;
\* a Run whose dispatch ends with nil, ErrExitFailure or ErrUsage never calls
\* the resolver.
C13_ResolverOnce ==
    (ret.op = "Run" /\ ret.panic = "")
    => EventsOf(ret.out, "resolve") =
          IF ReturnedErrUsage(ret.out) \/ ret.err \in {NilErr, ErrExitFailure}
          THEN <<>>
          ELSE <<Event("resolve", ret.err.type, <<ret.err.arg>>)>>

\* A Run on an undefined global flag called the resolver once with the
\* parse error.
C13_Witness ==
    /\ ret.op = "Run"
    /\ ret.panic = ""
    /\ ret.err = ErrUndefinedFlag(<<"u">>)
    /\ EventsOf(ret.out, "resolve") = <<Event("resolve", "ErrUndefinedFlag", <<<<"u">>>>)>>

\* The Run recorded in r returned to its caller: it neither panicked nor
\* ended the process.
RunReturned(r) == r.op = "Run" /\ r.panic = ""

\* C14: with the built-in resolver, a Run whose command handler returns an
\* error of its own ends the process: such a Run never returns to its caller.
C14_DefaultResolverExits ==
    ~ ( /\ RunReturned(ret)
        /\ cli.resolve = "defaultResolver"
        /\ EventsOf(ret.out, "command") = <<Event("command", "fail", <<>>)>>
        /\ ret.err = errCommandFailure )

----------------------------------------------------------------------------
\* xs in reverse order.
Reverse(xs) == [i \in 1..Len(xs) |-> xs[Len(xs) + 1 - i]]

RECURSIVE MiddlewareAsked(_)
\* The command middleware the options of an Add ask for: the arguments of
\* its WithMiddleware options, in the order given.
MiddlewareAsked(opts) ==
    IF opts = <<>> THEN <<>>
    ELSE (IF Head(opts).opt = "WithMiddleware" THEN Head(opts).middleware ELSE <<>>)
         \o MiddlewareAsked(Tail(opts))

\* The middleware and the raw handler the events of a call entered, in order.
Entered(out) ==
    [i \in 1..Len(SelectSeq(out, LAMBDA e : e.ev \in {"enter", "command"})) |->
        SelectSeq(out, LAMBDA e : e.ev \in {"enter", "command"})[i].id]

\* The raw handler and the middleware the events of a call returned from, in order.
Exited(out) ==
    <<SelectSeq(out, LAMBDA e : e.ev = "command")[1].id>>
    \o [i \in 1..Len(SelectSeq(out, LAMBDA e : e.ev = "exit")) |->
           SelectSeq(out, LAMBDA e : e.ev = "exit")[i].id]

\* The position in out of the single event of kind ev.
PositionOf(out, ev) == CHOOSE i \in 1..Len(out) : out[i].ev = ev

\* C15: Use appends to the global middleware; an Add that returns builds the
\* handler of its command as the global middleware registered so far (g1..gm),
\* then its own middleware (c1..cn), then the raw handler; a Run that calls
\* the handler of a command enters g1, ..., gm, c1, ..., cn and then the raw
\* handler, in that order, every entry before the raw handler's call, and
\* returns from them in the reverse order, every return after it.
C15_MiddlewareOrder ==
    [][ /\ CallOf("Use") => cli'.middleware = cli.middleware \o ret'.in.middleware
        /\ (CallOf("Add") /\ ret'.panic = "")
           => cli'.commands[ToLower(ret'.in.name)].handler =
                 cli.middleware \o MiddlewareAsked(ret'.in.opts) \o <<ret'.in.handler>>
        /\ (CallOf("Run") /\ EventsOf(ret'.out, "command") /= <<>>)
           => /\ Len(EventsOf(ret'.out, "command")) = 1
              /\ Entered(ret'.out) = cli.commands[CommandToken(ret'.in.args)].handler
              /\ Exited(ret'.out) = Reverse(cli.commands[CommandToken(ret'.in.args)].handler)
              /\ \A i \in 1..Len(ret'.out) :
                    /\ ret'.out[i].ev = "enter" => i < PositionOf(ret'.out, "command")
                    /\ ret'.out[i].ev = "exit" => i > PositionOf(ret'.out, "command") ]_vars

\* C15 witness: after Use(g1, g2) and the Add of y with the middleware c1
\* and c2, a Run of y entered g1, g2, c1, c2 and the raw handler, and
\* returned from them in the reverse order.
C15_Witness ==
    /\ ret.op = "Run"
    /\ ret.in.args = <<AppName, CmdY>>
    /\ Entered(ret.out) = <<"g1", "g2", "c1", "c2", "exit">>
    /\ Exited(ret.out) = <<"exit", "c2", "c1", "g2", "g1">>

----------------------------------------------------------------------------
\* The tokens of args that follow the command token, args being the list
\* Run was called with.
TokensAfterCommand(args) ==
    SubSeq(args, Len(RunArgs(cli, args)) - Len(GlobalParse(args).args) + 2, Len(args))

\* The handler of a Proxy command was called with the arguments given, and
\* nothing was parsed in the command's scope: one parse (the global one),
\* the command table and its flags as before, the handler's result returned.
ProxyCalledWith(given) ==
    /\ ret'.panic = ""
    /\ Len(EventsOf(ret'.out, "command")) = 1
    /\ EventsOf(ret'.out, "command")[1].args = given
    /\ Len(EventsOf(ret'.out, "parse")) = 1
    /\ cli'.commands = cli.commands
    /\ ret'.err = CallHandler(cli, "command", EventsOf(ret'.out, "command")[1].id, given).err

\* C16 as stated: for a Proxy command the handler receives every token that
\* follows the command name in the arguments of Run, and nothing is parsed
\* in the command's scope.
C16_ProxyEveryToken ==
    [][ ( /\ CallOf("Run")
          /\ Dispatches(ret'.in.args)
          /\ cli.commands[CommandToken(ret'.in.args)].proxy )
        => ProxyCalledWith(TokensAfterCommand(ret'.in.args)) ]_vars

\* C16, amended: for a Proxy command the handler receives every token that
\* follows the command name in the arguments of Run after the trailing
\* empty tokens were dropped, flag-like tokens and terminators included, and
\* nothing is parsed in the command's scope.
C16_ProxyVerbatim ==
    [][ ( /\ CallOf("Run")
          /\ Dispatches(ret'.in.args)
          /\ cli.commands[CommandToken(ret'.in.args)].proxy )
        => ProxyCalledWith(TokensAfterCommand(RunArgs(cli, ret'.in.args))) ]_vars

\* C16 witness: with S set in the environment, the Proxy command y received
\* -s, -- and v, and its flag s was not Set.
C16_Witness ==
    /\ ret.op = "Run"
    /\ ret.in.args = <<AppName, CmdY, <<"-","s">>, DoubleHyphen, ValV>>
    /\ EnvS \in DOMAIN environ
    /\ EventsOf(ret.out, "command") =
          <<Event("command", "exit", <<<<"-","s">>, DoubleHyphen, ValV>>)>>
    /\ cli.commands[CmdY].flags[1].count = 0

(***************************************************************************)
(* The dispatcher with the Strict and AfterParse options (src/cli.go,      *)
(* lines 1 to 398).  It has no middleware, no Proxy, no resolver and no    *)
(* ErrUsage; its operators carry the suffix 1.  c.commands is the list of  *)
(* the commands, kept here as the list of their names, and c.commandsMap   *)
(* the table of names and aliases.                                         *)
(***************************************************************************)

\* errors.New(text) and fmt.Errorf(text, arg)
errMustHaveArgs == [type |-> "cli: must have args", arg |-> <<>>]
errUnknownCommand == [type |-> "cli: unknown command", arg |-> <<>>]
errTooManyArguments == [type |-> "cli: too many arguments", arg |-> <<>>]
errUnknownHelpTopic == [type |-> "cli: unknown help topic", arg |-> <<>>]
errNoCommand == [type |-> "cli: no command", arg |-> <<>>]
errDuplicateFlag(name) == [type |-> "cli: duplicate flag", arg |-> name]
errDuplicateShortFlag(alias, name) ==
    [type |-> "cli: duplicate short flag", arg |-> alias \o <<" ">> \o name]

\* The error a failing post-parse hook returns.
errAfterParse == [type |-> "errAfterParse", arg |-> <<>>]

\* The options of New: Version, Default, Strict and AfterParse, <<>> or "nil"
\* standing for an option that is not given; strict is false when not given.
NoOptions1 == [version |-> <<>>, defaultHandler |-> "nil", strict |-> FALSE, afterParse |-> "nil"]

\* NewCommand(name, handler, usage, flags, opts...) of this dispatcher.
NewCommand1(name, handler, flags, opts) ==
    [ name |-> name, alias |-> AliasAsked(opts), flags |-> flags, handler |-> handler ]

\* CLI.Add(name, handler, usage, flags, opts...): the command is appended to
\* the list and stored under its name before the alias is looked up.
Add1(c, name, handler, flags, opts) ==
    LET lname == ToLower(name)
        cmd   == NewCommand1(lname, handler, flags, opts)
        c1    == [c EXCEPT !.commands = Append(@, lname),
                           !.commandsMap = (lname :> cmd) @@ @]
    IN  IF handler = "nil"
        THEN [cli |-> c, panic |-> "cli: command has nil handler"]
        ELSE IF lname \in DOMAIN c.commandsMap
        THEN [cli |-> c, panic |-> "cli: duplicate command"]
        ELSE IF cmd.alias /= <<>>
        THEN IF cmd.alias \in DOMAIN c1.commandsMap
             THEN [cli |-> c1, panic |-> "cli: duplicate command alias"]
             ELSE [cli |-> [c1 EXCEPT !.commandsMap = (cmd.alias :> cmd) @@ @], panic |-> ""]
        ELSE [cli |-> c1, panic |-> ""]

\* New(name, usage, flags, opts...)
New1(name, flags, opts) ==
    LET c0 == [ name           |-> name,
                strict         |-> opts.strict,
                flags          |-> flags,
                flagsMap       |-> EmptyMap,
                commands       |-> <<>>,
                commandsMap    |-> EmptyMap,
                version        |-> opts.version,
                afterParse     |-> opts.afterParse,
                helpHandler    |-> "defaultHelpHandler",
                defaultHandler |-> IF opts.defaultHandler = "nil"
                                   THEN "defaultDefaultHandler" ELSE opts.defaultHandler ]
        c1 == Add1(c0, <<"h","e","l","p">>, c0.helpHandler, <<>>, <<>>).cli
    IN  IF c1.version /= <<>>
        THEN Add1(c1, <<"v","e","r","s","i","o","n">>, "versionHandler", <<>>, <<>>).cli
        ELSE c1

\* CLI.Usage(w): the application usage written by the formatter.
Usage1(c, w) == [err |-> NilErr, out |-> <<Fprintf(w, "usage", <<c.name>>)>>]

\* CLI.defaultHelpHandler(args)
defaultHelpHandler1(c, args) ==
    IF Len(args) = 0 THEN Usage1(c, "stdout")
    ELSE IF Len(args) /= 1
    THEN [ err |-> errTooManyArguments,
           out |-> << Errorf("Too many arguments given.", <<>>),
                      Errorf("Run '%s help' for usage information.", <<c.name>>),
                      Errorf("Run '%s help [command]' for more information about a command.",
                             <<c.name>>) >> ]
    ELSE IF args[1] \notin DOMAIN c.commandsMap
    THEN [ err |-> errUnknownHelpTopic,
           out |-> << Errorf("Unknown help topic '%s'.", <<args[1]>>),
                      Errorf("Run '%s help' for usage information.", <<c.name>>) >> ]
    ELSE [ err |-> NilErr,
           out |-> <<Fprintf("stdout", "commandUsage", <<c.commandsMap[args[1]].name>>)>> ]

\* CLI.defaultDefaultHandler(args)
defaultDefaultHandler1(c, args) == [Usage1(c, "stderr") EXCEPT !.err = errNoCommand]

\* The call h(args) of the handler named h, made as a command (site
\* "command"), as the default handler (site "default") or as the post-parse
\* hook (site "afterParse"): the call is logged ahead of what it writes.
CallHandler1(c, site, h, args) ==
    [ (CASE h = "defaultHelpHandler" -> defaultHelpHandler1(c, args)
         [] h = "defaultDefaultHandler" -> defaultDefaultHandler1(c, args)
         [] h = "versionHandler" -> versionHandler(c, args)
         [] h = "ok" -> [err |-> NilErr, out |-> <<>>]
         [] h = "fail" -> [err |-> errCommandFailure, out |-> <<>>]
         [] h = "hookOk" -> [err |-> NilErr, out |-> <<>>]
         [] h = "hookFail" -> [err |-> errAfterParse, out |-> <<>>])
      EXCEPT !.out = <<Event(site, h, args)>> \o @ ]

RECURSIVE initFlags1From(_, _, _, _)
\* The loop of CLI.initFlags from flags[i] on.  m is c.flagsMap, kept as the
\* function from each key to the name of the flag stored under it: the error
\* for a short name that is already a key names the flag found there.
initFlags1From(name, m, flags, i) ==
    IF i > Len(flags) THEN [flagsMap |-> m, flags |-> flags, err |-> NilErr]
    ELSE IF flags[i].name \in DOMAIN m
    THEN [flagsMap |-> m, flags |-> flags, err |-> errDuplicateFlag(flags[i].name)]
    ELSE IF flags[i].alias /= <<>> /\ flags[i].alias \in (DOMAIN m \cup {flags[i].name})
    THEN [ flagsMap |-> (flags[i].name :> flags[i].name) @@ m, flags |-> flags,
           err |-> errDuplicateShortFlag(flags[i].alias,
                       ((flags[i].name :> flags[i].name) @@ m)[flags[i].alias]) ]
    ELSE initFlags1From(name,
             (IF flags[i].alias /= <<>>
              THEN (flags[i].alias :> flags[i].name) ELSE EmptyMap)
               @@ (flags[i].name :> flags[i].name) @@ m,
             [flags EXCEPT ![i] =
                 IF flags[i].envKey = <<>>
                 THEN [flags[i] EXCEPT
                          !.envKey = mapper(ToUpper(name \o <<"_">> \o flags[i].name))]
                 ELSE flags[i]],
             i + 1)

\* CLI.initFlags(flags)
initFlags1(c, flags) == initFlags1From(c.name, c.flagsMap, flags, 1)

\* CLI.parse after initFlags has returned r: return nil, err, or
\* Parse(args[1:], flags, c.strict).
parse1Init(r, args, strict, env) ==
    IF r.err /= NilErr
    THEN [flagsMap |-> r.flagsMap, flags |-> r.flags, args |-> <<>>, err |-> r.err,
          panic |-> ""]
    ELSE parseEnd(r.flagsMap, Parse(Tail(args), r.flags, strict, env))

\* CLI.parse(args, flags)
parse1(c, args, flags, env) ==
    IF Len(args) < 1
    THEN [flagsMap |-> c.flagsMap, flags |-> flags, args |-> <<>>, err |-> errMustHaveArgs,
          panic |-> ""]
    ELSE parse1Init(initFlags1(c, flags), args, c.strict, env)

\* CLI.commandNotFound(name): one candidate per command of the list.
commandNotFound1(c, name) ==
    LET near(n) == (IF HasPrefix(n, name) THEN 0 ELSE levenshtein(name, n)) < similarThreshold
    IN  [ err |-> errUnknownCommand,
          out |-> commandNotFoundOut(c, name, SelectSeq(c.commands, near)) ]

\* What run returns: the CLI as the call left it, the error returned, the
\* panic it ended with ("" when it returned) and the events.
run1Handled(c, out, h) == RunEnd(c, h.err, "", out \o h.out)

\* A mutation of run1Hooked: the error of the post-parse hook is ignored.
run1HookedIgnoresError(c, cmd, args, out, h) ==
    run1Handled(c, out \o h.out, CallHandler1(c, "command", cmd.handler, args))

\* run after c.afterParse(args) has returned h.
run1Hooked(c, cmd, args, out, h) ==
    IF h.err /= NilErr THEN run1Handled(c, out, h)
    ELSE run1Handled(c, out \o h.out, CallHandler1(c, "command", cmd.handler, args))

\* run after the command-scope parse of cmd has returned k.
run1Command(c, name, cmd, out, k) ==
    LET c2 == [c EXCEPT !.flagsMap = k.flagsMap,
                        !.commandsMap = WithCommandFlags(@, cmd.name, k.flags)]
    IN  IF k.panic /= "" THEN RunEnd(c2, NilErr, k.panic, out)
        ELSE IF k.err /= NilErr THEN RunEnd(c2, k.err, "", out)
        ELSE IF /\ c2.afterParse /= "nil"
                /\ name /= <<"h","e","l","p">>
                /\ name /= <<"v","e","r","s","i","o","n">>
        THEN run1Hooked(c2, cmd, k.args, out,
                        CallHandler1(c2, "afterParse", c2.afterParse, k.args))
        ELSE run1Handled(c2, out, CallHandler1(c2, "command", cmd.handler, k.args))

\* run after the global-scope parse has returned the residual list args.
run1Dispatch(c, args, out, env) ==
    IF Len(args) < 1
    THEN run1Handled(c, out, CallHandler1(c, "default", c.defaultHandler, args))
    ELSE IF args[1] \notin DOMAIN c.commandsMap
    THEN run1Handled(c, out, commandNotFound1(c, args[1]))
    ELSE run1Command(c, args[1], c.commandsMap[args[1]],
                     out \o <<Event("parse", "command", Tail(args))>>,
                     parse1(c, args, c.commandsMap[args[1]].flags, env))

\* run after the global-scope parse has returned g.
run1Global(c, out, g, env) ==
    IF g.panic /= "" THEN RunEnd([c EXCEPT !.flags = g.flags, !.flagsMap = g.flagsMap],
                                 NilErr, g.panic, out)
    ELSE IF g.err /= NilErr THEN RunEnd([c EXCEPT !.flags = g.flags, !.flagsMap = g.flagsMap],
                                        g.err, "", out)
    ELSE run1Dispatch([c EXCEPT !.flags = g.flags, !.flagsMap = g.flagsMap], g.args, out, env)

\* CLI.run(args)
run1(c, args, env) ==
    run1Global(c, <<Event("parse", "global", IF args = <<>> THEN <<>> ELSE Tail(args))>>,
               parse1(c, args, c.flags, env), env)

\* CLI.sortCommandsByName
sortCommandsByName(c) == [c EXCEPT !.commands = SortStrings(@)]

\* CLI.Run(args) for a non-nil args.
Run1(c, args, env) == run1(sortCommandsByName(c), args, env)

(***************************************************************************)
(* The calls made on this dispatcher: New, then Add and Run.               *)
(***************************************************************************)

\* The calls of New: no hook; a hook that succeeds, a strict parser and a
\* version; a hook that fails with a version; a hook that fails, a strict
\* parser and global flags.
New1Calls ==
    { [name |-> AppName, flags |-> <<>>, opts |-> NoOptions1],
      [name |-> AppName, flags |-> <<>>,
       opts |-> [NoOptions1 EXCEPT !.afterParse = "hookOk", !.strict = TRUE,
                                   !.version = <<"1">>]],
      [name |-> AppName, flags |-> <<>>,
       opts |-> [NoOptions1 EXCEPT !.afterParse = "hookFail", !.version = <<"1">>]],
      [name |-> AppName, flags |-> GlobalFlags,
       opts |-> [NoOptions1 EXCEPT !.afterParse = "hookFail", !.strict = TRUE]] }

\* The calls of Add.
Add1Calls ==
    { [name |-> CmdX, handler |-> "ok", flags |-> CommandFlags, opts |-> <<>>],
      [name |-> CmdZ, handler |-> "fail", flags |-> <<>>, opts |-> <<Alias(CmdY)>>],
      [name |-> CmdW, handler |-> "nil", flags |-> <<>>, opts |-> <<>>],
      [name |-> <<"v","e","r","s","i","o","n">>, handler |-> "ok", flags |-> <<>>,
       opts |-> <<>>] }

\* The calls of Run: the argument lists, program name first.
Run1Calls ==
    { <<>>,
      <<AppName>>,
      <<AppName, CmdX>>,
      <<AppName, CmdY>>,
      <<AppName, CmdZ>>,
      <<AppName, <<"q">>>>,
      <<AppName, CmdHelp>>,
      <<AppName, CmdHelp, CmdX>>,
      <<AppName, <<"v","e","r","s","i","o","n">>>>,
      <<AppName, <<"-","u">>, CmdX>>,
      <<AppName, CmdX, <<"-","u">>>>,
      <<AppName, CmdX, <<"-","s">>>>,
      <<AppName, CmdX, <<"-","s">>, ValV, ValV>> }

Init1 ==
    /\ environ \in Envs
    /\ call = [args |-> <<>>, flags |-> <<>>, strict |-> TRUE]
    /\ p = ParseEntry(<<>>, <<>>)
    /\ \E n \in New1Calls : cli = New1(n.name, n.flags, n.opts)
    /\ ret = [ op |-> "New", n |-> 0,
               in |-> Input(<<>>, "nil", <<>>, <<>>, <<>>, <<>>),
               err |-> NilErr, panic |-> "", out |-> <<>> ]

\* app.Add(name, handler, usage, flags, opts...)
CallAdd1 ==
    /\ ret.n < MaxCalls
    /\ \E a \in Add1Calls :
       \E r \in {Add1(cli, a.name, a.handler, a.flags, a.opts)} :
         /\ cli' = r.cli
         /\ ret' = [ op |-> "Add", n |-> ret.n + 1,
                     in |-> Input(a.name, a.handler, a.flags, a.opts, <<>>, <<>>),
                     err |-> NilErr, panic |-> r.panic, out |-> <<>> ]
    /\ UNCHANGED <<environ, call, p>>

\* app.Run(args)
CallRun1 ==
    /\ ret.n < MaxCalls
    /\ \E args \in Run1Calls :
       \E r \in {Run1(cli, args, environ)} :
         /\ cli' = r.cli
         /\ ret' = [ op |-> "Run", n |-> ret.n + 1,
                     in |-> Input(<<>>, "nil", <<>>, <<>>, <<>>, args),
                     err |-> r.err, panic |-> r.panic, out |-> r.out ]
    /\ UNCHANGED <<environ, call, p>>

Next1 == CallAdd1 \/ CallRun1

Spec1 == Init1 /\ [][Next1]_vars

----------------------------------------------------------------------------
\* C17: when the post-parse hook returns an error for a dispatched command,
\* Run returns that error and the handler of the command is not called.
C17_HookErrorAborts ==
    (ret.op = "Run" /\ EventsOf(ret.out, "afterParse") /= <<>>
                    /\ EventsOf(ret.out, "afterParse")[1].id = "hookFail")
    => /\ ret.err = errAfterParse
       /\ ret.panic = ""
       /\ EventsOf(ret.out, "command") = <<>>

\* C17 witness: the failing hook was called after the command-scope parse
\* of x had taken -s v and left v, and the handler of x was not called.
C17_Witness ==
    /\ ret.op = "Run"
    /\ ret.in.args = <<AppName, CmdX, <<"-","s">>, ValV, ValV>>
    /\ EventsOf(ret.out, "afterParse") = <<Event("afterParse", "hookFail", <<ValV>>)>>
    /\ EventsOf(ret.out, "command") = <<>>
    /\ ret.err = errAfterParse

----------------------------------------------------------------------------
\* The key Usage reads for the topic name: the name under the scope when it
\* is a key of the command table, the name as it is otherwise.
TopicKey(c, name) == IF name \in DOMAIN c.commands THEN c.scope \o name ELSE name

\* The step is a Run that called the built-in help handler.
HelpCalled ==
    /\ CallOf("Run")
    /\ Len(EventsOf(ret'.out, "command")) = 1
    /\ EventsOf(ret'.out, "command")[1].id = "defaultHelpHandler"

\* The arguments the help handler was called with, and the topic it asks for.
HelpArgs == EventsOf(ret'.out, "command")[1].args
HelpTopic == IF Len(HelpArgs) = 0 THEN cli.scope ELSE HelpArgs[1]

\* With two or more arguments the help handler prints no usage, reports too
\* many arguments on the error stream and fails.
HelpTooMany ==
    /\ EventsOf(ret'.out, "stdout") = <<>>
    /\ EventsOf(ret'.out, "stderr") =
          << Errorf("Too many arguments given.", <<>>),
             Errorf("Run '%s help' for usage information.", <<cli.name>>),
             Errorf("Run '%s help [command]' for more information about a command.",
                    <<cli.name>>) >>
    /\ ret'.err = ErrExitFailure

\* The help handler printed the usage read under key and succeeded.
HelpPrinted(key) ==
    /\ EventsOf(ret'.out, "stdout") = <<Fprintf("stdout", "usage", <<key>>)>>
    /\ EventsOf(ret'.out, "stderr") = <<>>
    /\ ret'.err = NilErr

\* C18 as stated: the help command prints the global usage with no argument,
\* the usage of the named topic with one argument, and with two or more
\* reports too many arguments without printing any usage.
C18_HelpPrints ==
    [][ HelpCalled
        => IF Len(HelpArgs) <= 1 THEN HelpPrinted(TopicKey(cli, HelpTopic))
           ELSE HelpTooMany ]_vars

\* C18, amended: with no argument (the topic is the scope) or one argument
\* (the topic is the argument) the help command prints the usage of the topic
\* on the output stream when the usage source has it; when the usage source
\* has no such topic it prints nothing, writes the unknown-help-topic notice
\* to the error stream and fails with ErrExitFailure; when the topic cannot be
\* read it prints nothing and fails with the read error.  With two or more
\* arguments it reports too many arguments without printing any usage.
C18_HelpPrintsIfReadable ==
    [][ HelpCalled
        => IF Len(HelpArgs) >= 2 THEN HelpTooMany
           ELSE IF TopicKey(cli, HelpTopic) \notin DOMAIN cli.usage
           THEN /\ EventsOf(ret'.out, "stdout") = <<>>
                /\ EventsOf(ret'.out, "stderr") =
                      << IF HelpTopic = <<>> \/ HelpTopic = cli.scope
                         THEN Errorf("Unknown help topic.", <<>>)
                         ELSE Errorf("Unknown help topic '%s'.", <<HelpTopic>>),
                         Errorf("Run '%s help' for usage information.", <<cli.name>>) >>
                /\ ret'.err = ErrExitFailure
           ELSE IF cli.usage[TopicKey(cli, HelpTopic)] = "ok"
           THEN HelpPrinted(TopicKey(cli, HelpTopic))
           ELSE /\ EventsOf(ret'.out, "stdout") = <<>>
                /\ ret'.err = errUsageRead ]_vars

\* C18 witness: help x printed the usage of x on the output stream.
C18_Witness ==
    /\ ret.op = "Run"
    /\ ret.in.args = <<AppName, CmdHelp, CmdX>>
    /\ EventsOf(ret.out, "command") = <<Event("command", "defaultHelpHandler", <<CmdX>>)>>
    /\ EventsOf(ret.out, "stdout") = <<Fprintf("stdout", "usage", <<CmdX>>)>>
    /\ ret.err = NilErr

(***************************************************************************)
(* One call of levenshtein on bounded strings.                             *)
(***************************************************************************)

\* The longest string of the calls, and their alphabet.
MaxLevLen == 3
LevBytes == {"a", "b"}

\* The strings over LevBytes of length at most n.
LevStrings(n) == UNION { [1..k -> LevBytes] : k \in 0..n }

\* The two pairs of the package's test.
Kitten == <<"k","i","t","t","e","n">>
Sitting == <<"s","i","t","t","i","n","g">>
Saturday == <<"S","a","t","u","r","d","a","y">>
Sunday == <<"S","u","n","d","a","y">>

InitLev ==
    /\ environ = EmptyEnv
    /\ p = ParseEntry(<<>>, <<>>)
    /\ cli = NoCLI
    /\ call \in ( { [s |-> s, t |-> t] : s \in LevStrings(MaxLevLen), t \in LevStrings(MaxLevLen) }
                  \cup { [s |-> Kitten, t |-> Sitting], [s |-> Saturday, t |-> Sunday],
                         [s |-> Sitting, t |-> Sitting] } )
    /\ ret = [op |-> "none", d |-> 0]

\* d := levenshtein(s, t)
CallLevenshtein ==
    /\ ret.op = "none"
    /\ ret' = [op |-> "levenshtein", d |-> levenshtein(call.s, call.t)]
    /\ UNCHANGED <<environ, call, p, cli>>

NextLev == CallLevenshtein

SpecLev == InitLev /\ [][NextLev]_vars

----------------------------------------------------------------------------
\* The strings one insertion, one deletion or one substitution of a byte
\* away from u, among the strings of length at most n.
OneEdit(u, n) ==
    { SubSeq(u, 1, i - 1) \o SubSeq(u, i + 1, Len(u)) : i \in 1..Len(u) }
    \cup { [u EXCEPT ![i[1]] = i[2]] : i \in (1..Len(u)) \X LevBytes }
    \cup (IF Len(u) < n
          THEN { SubSeq(u, 1, i[1]) \o <<i[2]>> \o SubSeq(u, i[1] + 1, Len(u)) :
                    i \in (0..Len(u)) \X LevBytes }
          ELSE {})

RECURSIVE WithinEdits(_, _, _)
\* The strings at most k edits away from a string of S.
WithinEdits(S, k, n) ==
    IF k = 0 THEN S
    ELSE WithinEdits(S \cup UNION { OneEdit(u, n) : u \in S }, k - 1, n)

\* The least number of single-byte insertions, deletions and substitutions
\* that turn s into t, no string on the way being longer than n.
EditDistance(s, t, n) ==
    CHOOSE k \in 0..(Len(s) + Len(t)) :
        /\ t \in WithinEdits({s}, k, n)
        /\ k > 0 => t \notin WithinEdits({s}, k - 1, n)

\* C19: levenshtein(s, t) is the least number of single-byte insertions,
\* deletions and substitutions that turn s into t; levenshtein(s, s) = 0;
\* levenshtein("kitten", "sitting") = 3 and levenshtein("Saturday", "Sunday") = 3.
C19_Levenshtein ==
    ret.op = "levenshtein"
    => /\ (Len(call.s) <= MaxLevLen /\ Len(call.t) <= MaxLevLen)
          => ret.d = EditDistance(call.s, call.t, MaxLevLen + 1)
       /\ call.s = call.t => ret.d = 0
       /\ (call.s = Kitten /\ call.t = Sitting) => ret.d = 3
       /\ (call.s = Saturday /\ call.t = Sunday) => ret.d = 3

\* C19 witness: a call on two strings that need an insertion and a
\* substitution returned 2.
C19_Witness ==
    /\ ret.op = "levenshtein"
    /\ call.s = <<"a", "b">>
    /\ call.t = <<"b", "a", "a">>
    /\ ret.d = 2

----------------------------------------------------------------------------
\* The distance commandNotFound gives the registered name n for the
\* requested name: 0 when n starts with it, the Levenshtein distance otherwise.
Distance(name, n) == IF HasPrefix(n, name) THEN 0 ELSE levenshtein(name, n)

\* The registered command names within the threshold of name.
Similar(c, name) ==
    { c.commands[k].name : k \in { k \in DOMAIN c.commands :
                                      Distance(name, c.commands[k].name) < similarThreshold } }

\* The names listed as suggestions by the events out, in order.
Suggested(out) ==
    [i \in 1..Len(SelectSeq(out, LAMBDA e : e.ev = "stderr" /\ e.id = "    %s")) |->
        SelectSeq(out, LAMBDA e : e.ev = "stderr" /\ e.id = "    %s")[i].args[1]]

\* C20: when the first positional token is not a key of the command table,
\* the names suggested are exactly the registered command names whose
\* distance to the token is less than 5, in lexicographic order; when no
\* registered name is that close there is no suggestion list at all.
C20_Suggestions ==
    [][ CallOf("Run")
        => LET g == GlobalParse(ret'.in.args)
               listed == Suggested(ret'.out)
           IN  (g.panic = "" /\ g.err = NilErr /\ g.args /= <<>>
                             /\ g.args[1] \notin DOMAIN cli.commands)
               => /\ Range(listed) = Similar(cli, g.args[1])
                  /\ \A i \in 1..(Len(listed) - 1) : ~StringLess(listed[i + 1], listed[i])
                  /\ (Range(listed) = {})
                     <=> (\A i \in 1..Len(ret'.out) : ret'.out[i].id /= "Did you mean?") ]_vars

\* C20 witness: for the token versio the name version (a prefix match) was
\* suggested and the name help, at distance 5, was not.
C20_Witness ==
    /\ ret.op = "Run"
    /\ ret.in.args = <<AppName, <<"v","e","r","s","i","o">>>>
    /\ levenshtein(<<"v","e","r","s","i","o">>, CmdHelp) = similarThreshold
    /\ CmdHelp \in DOMAIN cli.commands
    /\ Suggested(ret.out) = << <<"v","e","r","s","i","o","n">> >>

(***************************************************************************)
(* One flag: NewFlag, then calls of Set.                                   *)
(***************************************************************************)

\* The most calls of Set on one flag.
MaxSets == 3

\* The flags constructed: both kinds, with and without a short name, an
\* environment key and a default value.
NewFlagCalls ==
    { [name |-> NameS, kind |-> "string", alias |-> <<>>, envKey |-> <<>>, def |-> <<>>],
      [name |-> NameS, kind |-> "string", alias |-> AliasA, envKey |-> EnvS, def |-> ValD],
      [name |-> <<"S">>, kind |-> "string", alias |-> <<>>, envKey |-> <<>>, def |-> ValV],
      [name |-> NameB, kind |-> "bool", alias |-> <<>>, envKey |-> <<>>, def |-> <<>>],
      [name |-> NameB, kind |-> "bool", alias |-> <<>>, envKey |-> EnvB, def |-> StrTrue],
      [name |-> NameB, kind |-> "bool", alias |-> AliasA, envKey |-> <<>>, def |-> <<"n","o">>] }

\* The raw values given to Set.
SetValues ==
    { <<>>, ValV, ValD, <<"n","o">>, <<"0">>, <<"o","n">>, <<"f","a","l","s","e">>,
      <<"1">>, <<"t">>, <<"T">>, StrTrue, <<"T","R","U","E">>, <<"T","r","u","e">>,
      <<"y">>, <<"Y">>, <<"y","e","s">>, <<"Y","E","S">>, <<"Y","e","s">>,
      <<"t","R","U","E">>, <<"t","r","u","E">>, <<"y","E","S">>, <<"Y","e","S">>,
      <<"y","e">>, <<"1","1">> }

\* f := NewFlag(...): call.sets lists the raw values given to Set so far.
InitFlag ==
    /\ environ = EmptyEnv
    /\ p = ParseEntry(<<>>, <<>>)
    /\ cli = NoCLI
    /\ call = [sets |-> <<>>]
    /\ \E n \in NewFlagCalls :
          ret = [op |-> "NewFlag", in |-> n,
                 f |-> NewFlag(n.name, n.kind, n.alias, n.envKey, n.def)]

\* f.Set(value)
CallSet ==
    /\ Len(call.sets) < MaxSets
    /\ \E v \in SetValues :
         /\ ret' = [ret EXCEPT !.op = "Set", !.f = FlagSet(ret.f, v)]
         /\ call' = [sets |-> Append(call.sets, v)]
    /\ UNCHANGED <<environ, p, cli>>

NextFlag == CallSet

SpecFlag == InitFlag /\ [][NextFlag]_vars

----------------------------------------------------------------------------
\* C21: a newly constructed flag, with or without a default value, has
\* count 0 and is not set; after n calls of Set the count is n, the raw
\* value is the one given last, the destination holds its parse, and IsSet
\* holds exactly when the count is above 0.
C21_Count ==
    /\ ret.f.count = Len(call.sets)
    /\ FlagIsSet(ret.f) <=> ret.f.count > 0
    /\ FlagIsSet(ret.f) <=> call.sets /= <<>>
    /\ ret.f.value = IF call.sets = <<>> THEN ret.in.def ELSE call.sets[Len(call.sets)]
    /\ ret.f.flag = KindParse(ret.in.kind, ret.f.value)

\* C21 witness: a bool flag constructed with the default true was set three
\* times, last to "no".
C21_Witness ==
    /\ ret.op = "Set"
    /\ ret.in.def = StrTrue
    /\ Len(call.sets) = 3
    /\ call.sets[3] = <<"n","o">>
    /\ ret.f.count = 3
    /\ ret.f.flag = FALSE

----------------------------------------------------------------------------
\* C22 as stated: Parse of the empty argument list returns no error and no
\* positional argument and leaves the count of every flag at 0.
C22_EmptySetsNothing ==
    (p.pc = "done" /\ call.args = <<>>)
    => /\ p.err = NilErr
       /\ p.args = <<>>
       /\ \A i \in 1..Len(p.flags) : p.flags[i].count = 0

\* C22, amended: Parse of the empty argument list, or of the list that holds
\* only the empty token, returns no error and the list it was given; a flag
\* whose environment key is present was Set once, to the value found there;
\* every other flag is as it was constructed, count 0 and default in place.
C22_EmptySetsOnlyFromEnv ==
    (p.pc = "done" /\ call.args \in {<<>>, << <<>> >>})
    => /\ p.err = NilErr
       /\ p.args = call.args
       /\ \A i \in 1..Len(p.flags) :
             IF call.flags[i].envKey \in DOMAIN environ
             THEN /\ p.flags[i].count = 1
                  /\ p.flags[i].value = environ[call.flags[i].envKey]
             ELSE p.flags[i] = call.flags[i]

\* C22 witness: with S and B in the environment, Parse of the empty list
\* over flags with a default has returned, s set once and b set once.
C22_Witness ==
    /\ p.pc = "done"
    /\ call.args = <<>>
    /\ EnvS \in DOMAIN environ
    /\ call.flags[1].defaultValue = ValD
    /\ p.flags[1].count = 1
    /\ p.flags[1].value = ValE
    /\ p.args = <<>>

----------------------------------------------------------------------------
\* C23: when the token after the name of a dispatched command (not a Proxy,
\* its flags registered without error) is a flag token whose key names a
\* global flag and no flag of the command, Run returns ErrUndefinedFlag for
\* that key, calls no handler, and leaves the global flags as the
\* global-scope parse left them.
C23_GlobalFlagAfterCommand ==
    [][ CallOf("Run")
        => LET g == GlobalParse(ret'.in.args)
               c1 == [cli EXCEPT !.flags = g.flags, !.flagsMap = g.flagsMap]
           IN  ( /\ g.panic = "" /\ g.err = NilErr /\ Len(g.args) >= 2
                 /\ g.args[1] \in DOMAIN cli.commands
                 /\ ~cli.commands[g.args[1]].proxy
                 /\ initFlags(c1, cli.commands[g.args[1]].flags).err = NilErr
                 /\ LeadsWithHyphen(g.args[2]) /\ ~IsTerminator(g.args[2])
                 /\ TokenKey(g.args[2]) \in FlagKeys(cli.flags)
                 /\ TokenKey(g.args[2]) \notin FlagKeys(cli.commands[g.args[1]].flags) )
               => /\ ret'.panic = ""
                  /\ ret'.err = ErrUndefinedFlag(TokenKey(g.args[2]))
                  /\ EventsOf(ret'.out, "command") = <<>>
                  /\ cli'.flags = g.flags ]_vars

\* C23 witness: in app -g v x -g=d the global flag g was set to v before
\* the command name; the second -g was undefined in the scope of x and g
\* still holds v, counted once.
C23_Witness ==
    /\ ret.op = "Run"
    /\ ret.in.args = <<AppName, <<"-","g">>, ValV, CmdX, <<"-","g","=","d">>>>
    /\ ret.err = ErrUndefinedFlag(NameG)
    /\ Len(EventsOf(ret.out, "parse")) = 2
    /\ cli.flags[1].name = NameG
    /\ cli.flags[1].value = ValV
    /\ cli.flags[1].count = 1

(***************************************************************************)
(* Duplicate flags                                                         *)
(***************************************************************************)

\* The error is one of the two duplicate-flag errors of CLI.initFlags.
IsDuplicateFlagError(err) == err.type \in {"Duplicate flag", "Duplicate short flag"}

\* C24: no call of Run reports a duplicate-flag error: a duplicate flag name
\* or alias is rejected when the flags are handed to New or Add.
C24_NoDuplicateAtRun ==
    ret.op = "Run" => ~IsDuplicateFlagError(ret.err)

\* C25: a command may name a flag as the global scope does: a Run that
\* dispatches to a command whose flags were not yet registered, on an
\* application whose global flags are registered by this same Run, reports
\* no duplicate-flag error.
C25_SameNameAcrossScopes ==
    [][ ( CallOf("Run") /\ cli.flagsMap = {} /\ GlobalParseOk(ret'.in.args)
          /\ GlobalParse(ret'.in.args).args /= <<>>
          /\ GlobalParse(ret'.in.args).args[1] \in DOMAIN cli.commands )
        => ~IsDuplicateFlagError(ret'.err) ]_vars

(***************************************************************************)
(* The environment key of a flag: New with one list of flags and a prefix  *)
(* or none, then calls of Run without flag tokens                          *)
(***************************************************************************)

NameGH == <<"g","-","h">>
NameGDot == <<"g",".","h">>
NameGSlash == <<"g","/","h">>
NameGComma == <<"g",",","h">>
NameH == <<"h">>
EnvK == <<"K">>
PrefixPQ == <<"p","-","q">>

\* The flag lists handed to New: one flag of each name, with and without
\* an explicit environment key, and a list of two flags.
KeyFlagLists ==
    { << NewFlag(n, "string", <<>>, k, <<>>) >> :
         n \in {NameG, NameGH, NameGDot, NameGSlash, NameGComma}, k \in {<<>>, EnvK} }
    \cup { << NewFlag(NameG, "string", <<>>, <<>>, ValD),
              NewFlag(NameH, "string", <<>>, EnvK, <<>>) >> }

\* The prefixes configured: none, and one with a hyphen.
KeyPrefixes == { <<>>, PrefixPQ }

\* The environments: empty, the explicit key alone, and one that holds the
\* derived keys next to keys a wrong derivation would look up.
KeyEnvs ==
    { EmptyEnv,
      [k \in {EnvK} |-> ValE],
      [k \in { <<"A","P","P","_","G">>, <<"A","P","P","_","G","_","H">>,
               <<"P","_","Q","_","G">>, <<"P","_","Q","_","G","_","H">>,
               <<"A","P","P","_","G","-","H">>, <<"P","-","Q","_","G">>,
               <<"a","p","p","_","g">>, <<"G">>, EnvK }
         |-> IF k = EnvK THEN ValE ELSE k] }

\* The argument lists of Run: no flag tokens.
KeyRunCalls == { <<AppName>>, <<AppName, CmdHelp>>, <<AppName, <<"q">>>> }

InitKey ==
    /\ environ \in KeyEnvs
    /\ p = ParseEntry(<<>>, <<>>)
    /\ \E fl \in KeyFlagLists, pre \in KeyPrefixes :
         /\ call = [name |-> AppName, prefix |-> pre, flags |-> fl]
         /\ cli = New(AppName, EmptyMap, fl, [NoOptions EXCEPT !.prefix = pre])
    /\ ret = [ op |-> "New", n |-> 0,
               in |-> Input(<<>>, "nil", <<>>, <<>>, <<>>, <<>>),
               err |-> NilErr, panic |-> "", out |-> <<>> ]

\* app.Run(args)
CallRunKey ==
    /\ ret.n < MaxCalls
    /\ \E args \in KeyRunCalls :
       \E r \in {Run(cli, args, environ)} :
         /\ cli' = r.cli
         /\ ret' = [ op |-> "Run", n |-> ret.n + 1,
                     in |-> Input(<<>>, "nil", <<>>, <<>>, <<>>, args),
                     err |-> r.err, panic |-> r.panic, out |-> r.out ]
    /\ UNCHANGED <<environ, call, p>>

NextKey == CallRunKey

SpecKey == InitKey /\ [][NextKey]_vars

\* The key the documentation derives for a flag: prefix, "_" and the flag
\* name in upper case, with . / - and , replaced by "_".
DerivedKey(prefix, name) ==
    [i \in 1..(Len(prefix) + 1 + Len(name)) |->
        LET ch == (prefix \o <<"_">> \o name)[i] IN
        IF ch \in {".", "/", "-", ","} THEN "_" ELSE ToUpper(<<ch>>)[1]]

\* The key flag f of an application set up with prefix pre (none: <<>>) and
\* the name app is pre-seeded from.
SeedKey(app, pre, f) ==
    IF f.envKey /= <<>> THEN f.envKey
    ELSE DerivedKey(IF pre = <<>> THEN app ELSE pre, f.name)

\* C26: the first Run of an application pre-seeds each global flag from the
\* environment variable named by its explicit key, or else by
\* uppercase(prefix + "_" + name) with . / - , replaced by "_", the prefix
\* being the application name when none is configured: the flag holds that
\* variable's value, set once, when the variable exists and is untouched
\* when it does not.
C26_EnvironmentKey ==
    [][ (CallOf("Run") /\ ret.op = "New")
        => /\ ret'.panic = ""
           /\ Len(cli'.flags) = Len(call.flags)
           /\ \A i \in 1..Len(call.flags) :
                LET key == SeedKey(call.name, call.prefix, call.flags[i]) IN
                /\ cli'.flags[i].envKey = key
                /\ IF key \in DOMAIN environ
                   THEN cli'.flags[i].count = 1 /\ cli'.flags[i].value = environ[key]
                   ELSE cli'.flags[i] = [call.flags[i] EXCEPT !.envKey = key] ]_vars

\* C26 witness: an application with the prefix p-q and a flag g-h without an
\* explicit key has run: the flag holds the value of P_Q_G_H.
C26_Witness ==
    /\ ret.op = "Run" /\ ret.n = 1
    /\ call.prefix = PrefixPQ
    /\ Len(call.flags) = 1 /\ call.flags[1].name = NameGH /\ call.flags[1].envKey = <<>>
    /\ <<"P","_","Q","_","G","_","H">> \in DOMAIN environ
    /\ cli.flags[1].envKey = <<"P","_","Q","_","G","_","H">>
    /\ cli.flags[1].count = 1
    /\ cli.flags[1].value = <<"P","_","Q","_","G","_","H">>

----------------------------------------------------------------------------
\* The strings the documentation of the boolean kind lists as true.
ListedTrue ==
    { <<"1">>, <<"t">>, <<"T">>, <<"t","r","u","e">>, <<"T","R","U","E">>,
      <<"T","r","u","e">>, <<"y">>, <<"Y">>, <<"y","e","s">>, <<"Y","E","S">>,
      <<"Y","e","s">> }

\* C27: the boolean kind parses 1, t, T, true, TRUE, True, y, Y, yes, YES and
\* Yes to true and every other string to false: after Set(s) the destination
\* of a boolean flag holds true exactly when s is one of these.
C27_BoolParse ==
    (ret.op = "Set" /\ ret.in.kind = "bool")
    => /\ ret.f.flag \in BOOLEAN
       /\ ret.f.flag <=> call.sets[Len(call.sets)] \in ListedTrue

\* C27 witness: a boolean flag holds true after Set("YES") and false after
\* Set("tRUE") and Set("").
C27_Witness ==
    /\ ret.op = "Set" /\ ret.in.kind = "bool"
    /\ call.sets = << <<"Y","E","S">>, <<"t","R","U","E">>, <<>> >>
    /\ ret.f.flag = FALSE
    /\ ret.f.count = 3

----------------------------------------------------------------------------
\* C28: in lenient mode an undefined flag is discarded and the scan goes on
\* as if it had not been there: a call whose first token names the undefined
\* flag u ends with the error and the flags of the call on the tokens after it.
C28_LenientDiscardsUndefined ==
    ( /\ p.pc = "done" /\ ~call.strict
      /\ call.args /= <<>>
      /\ Head(call.args) \in {Hyphen \o NameU, Hyphen \o NameU \o <<"=">> \o ValV}
      /\ Parse(Tail(call.args), call.flags, FALSE, environ).pc = "done" )
    => /\ p.err = Parse(Tail(call.args), call.flags, FALSE, environ).err
       /\ p.flags = Parse(Tail(call.args), call.flags, FALSE, environ).flags

----------------------------------------------------------------------------
\* The command is one New adds itself: help, or version with the version
\* handler.
BuiltIn(cmd) ==
    \/ cmd.name = <<"h","e","l","p">>
    \/ cmd.name = <<"v","e","r","s","i","o","n">> /\ cmd.handler = "versionHandler"

\* The events of kind a all come before the events of kind b.
AllBefore(out, a, b) ==
    \A i, j \in 1..Len(out) : (out[i].ev = a /\ out[j].ev = b) => i < j

\* C29: on an application with a post-parse hook, a Run that dispatches to a
\* command and parses its scope without error calls the hook exactly once,
\* with the residual arguments and before the handler, unless the command is
\* the built-in help or version command, for which the hook is not called.
C29_HookOncePerCommand ==
    [][ (CallOf("Run") /\ cli.afterParse /= "nil")
        => LET g    == parse1(cli, ret'.in.args, cli.flags, environ)
               cmd  == cli.commandsMap[g.args[1]]
               k    == parse1([cli EXCEPT !.flags = g.flags, !.flagsMap = g.flagsMap],
                              g.args, cmd.flags, environ)
               hook == EventsOf(ret'.out, "afterParse")
           IN  ( /\ g.panic = "" /\ g.err = NilErr /\ g.args /= <<>>
                 /\ g.args[1] \in DOMAIN cli.commandsMap
                 /\ k.panic = "" /\ k.err = NilErr )
               => IF BuiltIn(cmd)
                  THEN hook = <<>>
                  ELSE /\ hook = <<Event("afterParse", cli.afterParse, k.args)>>
                       /\ AllBefore(ret'.out, "parse", "afterParse")
                       /\ AllBefore(ret'.out, "afterParse", "command") ]_vars

----------------------------------------------------------------------------
\* The token without its one or two leading hyphens.
AfterHyphens(t) ==
    IF Len(t) >= 2 /\ t[2] = "-" THEN SubSeq(t, 3, Len(t)) ELSE SubSeq(t, 2, Len(t))

\* The scan loop is about to examine, with no key pending, a token that leads
\* with a hyphen, is no terminator, and does not continue with a letter.
OpensMalformed ==
    /\ p.pc = "scan" /\ p.key = <<>> /\ p.args /= <<>>
    /\ LeadsWithHyphen(Head(p.args)) /\ ~IsTerminator(Head(p.args))
    /\ ~IsLetter(AfterHyphens(Head(p.args))[1])

\* C30: a token that opens a flag and whose first character after one or two
\* leading hyphens is not a letter makes Parse return FlagSyntaxError with the
\* token without these hyphens, in strict and in lenient mode, and no later
\* token is processed: the flags stay as they are at that point.
C30_FlagSyntax ==
    OpensMalformed
    => /\ Final.pc = "done"
       /\ Final.err = ErrFlagSyntax(AfterHyphens(Head(p.args)))
       /\ Final.args = <<>>
       /\ Final.flags = p.flags

\* C30 witness: a lenient Parse of ---s -s=v has returned FlagSyntaxError for
\* -s and the flag s was not Set by the token after it.
C30_Witness ==
    /\ p.pc = "done" /\ ~call.strict /\ environ = EmptyEnv
    /\ call.args = << <<"-","-","-","s">>, <<"-","s","=","v">> >>
    /\ p.err = ErrFlagSyntax(<<"-","s">>)
    /\ p.args = <<>>
    /\ p.flags[1].count = 0

----------------------------------------------------------------------------
\* C31: Parse is total: every call ends by returning a residual argument list
\* or one of FlagSyntaxError, UndefinedFlagError and RequiresArgError, and
\* never with a run-time panic.
C31_ParseTotal ==
    /\ Final.pc = "done"
    /\ Final.err.type \in {"nil", "ErrFlagSyntax", "ErrUndefinedFlag", "ErrRequiresArg"}

----------------------------------------------------------------------------
\* What is left to examine in position q of the scan loop: two looks at each
\* remaining token, and one more while a key is pending.
ScanMeasure(q) == 2 * Len(q.args) + (IF q.key /= <<>> THEN 1 ELSE 0)

\* C32: Parse terminates.  Every iteration of the scan loop either leaves the
\* loop or goes on with strictly less left to examine; the only iteration
\* that removes no token is the push-back of a pending no-argument flag, and
\* it clears the pending key, so that no token is examined more than twice.
C32_ScanProgress ==
    [][ (p.pc = "scan" /\ p.args /= <<>>)
        => \/ p'.pc \in {"after", "done", "panic"}
           \/ /\ p'.pc = "scan"
              /\ ScanMeasure(p') < ScanMeasure(p)
              /\ \/ p'.args = Tail(p.args)
                 \/ p'.args = p.args /\ p.key /= <<>> /\ p'.key = <<>> ]_vars

\* C32 witness: in a scan of -b v the pending flag b has re-queued v and was
\* Set: the key is cleared and v is about to be examined a second time.
C32_Witness ==
    /\ p.pc = "scan" /\ p.key = <<>>
    /\ environ = EmptyEnv
    /\ call.args = << Hyphen \o NameB, ValV >>
    /\ p.args = <<ValV>>
    /\ p.flags[2].name = NameB /\ p.flags[2].count = 1

----------------------------------------------------------------------------
\* C33: a call of Add that is rejected (nil handler, duplicate name, alias
\* collision) leaves the command table exactly as it was before the call.
C33_RejectedAddChangesNothing ==
    [][ (CallOf("Add") /\ ret'.panic /= "") => cli'.commands = cli.commands ]_vars

----------------------------------------------------------------------------
\* C34: on an application whose global flags were registered by an earlier
\* Run, a Run returns the duplicate-flag error of the first global flag
\* without scanning a token and without calling a handler, and the flags keep
\* the values and counts the earlier Run left; a Run that reaches a command
\* whose flags were registered by an earlier Run returns the duplicate-flag
\* error of its first flag, that command's handler is not called and its
\* flags keep their values and counts.
C34_SecondRunDuplicate ==
    [][ CallOf("Run")
        => /\ ( cli.flags /= <<>> /\ cli.flags[1].name \in cli.flagsMap
                /\ RunArgs(cli, ret'.in.args) /= <<>> )
              => /\ ret'.panic = ""
                 /\ ret'.err = ErrDuplicateFlag(cli.flags[1].name)
                 /\ EventsOf(ret'.out, "command") = <<>>
                 /\ EventsOf(ret'.out, "default") = <<>>
                 /\ cli'.flags = cli.flags
                 /\ cli'.commands = cli.commands
           /\ LET g == GlobalParse(ret'.in.args) IN
              ( /\ g.panic = "" /\ g.err = NilErr /\ g.args /= <<>>
                /\ g.args[1] \in DOMAIN cli.commands
                /\ ~cli.commands[g.args[1]].proxy
                /\ cli.commands[g.args[1]].flags /= <<>>
                /\ cli.commands[g.args[1]].flags[1].name \in cli.flagsMap )
              => /\ ret'.panic = ""
                 /\ ret'.err = ErrDuplicateFlag(cli.commands[g.args[1]].flags[1].name)
                 /\ EventsOf(ret'.out, "command") = <<>>
                 /\ cli'.commands = cli.commands ]_vars

\* C34 witness: a Run of -g v on an application whose earlier Run had set the
\* global flag g to v once has returned Duplicate flag 'g': g still holds v
\* with count 1, and the second -g v was not scanned.
C34_Witness ==
    /\ ret.op = "Run" /\ ret.n >= 2
    /\ environ = EmptyEnv
    /\ ret.in.args = <<AppName, <<"-","g">>, ValV>>
    /\ ret.err = ErrDuplicateFlag(NameG)
    /\ EventsOf(ret.out, "default") = <<>>
    /\ cli.flags[1].name = NameG
    /\ cli.flags[1].value = ValV
    /\ cli.flags[1].count = 1

----------------------------------------------------------------------------
\* The calls of a command handler or of the default handler among out.
HandlerCalls(out) == SelectSeq(out, LAMBDA e : e.ev \in {"command", "default"})

\* The parse ended by returning no error.
ParseOk(r) == r.panic = "" /\ r.err = NilErr

\* C35: a Run calls at most one handler, at most once.  A command handler is
\* called only after the global-scope parse and, unless the command is a
\* Proxy, the command-scope parse have returned without error; when either
\* parse fails no command handler and no default handler is called.
C35_OneHandler ==
    [][ CallOf("Run")
        => LET g    == GlobalParse(ret'.in.args)
               hit  == ParseOk(g) /\ g.args /= <<>> /\ g.args[1] \in DOMAIN cli.commands
               cmd  == cli.commands[g.args[1]]
               k    == parse([cli EXCEPT !.flags = g.flags, !.flagsMap = g.flagsMap],
                             g.args, cmd.flags, environ)
               hs   == HandlerCalls(ret'.out)
           IN  /\ Len(hs) <= 1
               /\ ~ParseOk(g) => hs = <<>>
               /\ (hit /\ ~cmd.proxy /\ hs /= <<>>) => ParseOk(k)
               /\ EventsOf(ret'.out, "command") /= <<>>
                  => /\ hit
                     /\ AllBefore(ret'.out, "parse", "command")
                     /\ Len(EventsOf(ret'.out, "parse")) = (IF cmd.proxy THEN 1 ELSE 2) ]_vars

\* C35 witness: a Run of x -g v on an application without global flags has
\* parsed the global scope, failed in the scope of x on the undefined flag g,
\* and has called no handler.
C35_Witness ==
    /\ ret.op = "Run"
    /\ ret.in.args = <<AppName, CmdX, <<"-","g">>, ValV>>
    /\ cli.flags = <<>>
    /\ CmdX \in DOMAIN cli.commands
    /\ Len(EventsOf(ret.out, "parse")) = 2
    /\ ret.err = ErrUndefinedFlag(NameG)
    /\ HandlerCalls(ret.out) = <<>>

----------------------------------------------------------------------------
\* C36: Parse does not roll back.  A step of Parse never takes a Set back:
\* the count of a flag never falls, and once Parse has returned an error the
\* flags are those of the last position before the failure, environment
\* values and token values included.
C36_NoRollback ==
    [][ /\ Len(p'.flags) = Len(p.flags)
        /\ \A i \in 1..Len(p.flags) :
             /\ p'.flags[i].count >= p.flags[i].count
             /\ p'.flags[i].count = p.flags[i].count => p'.flags[i] = p.flags[i]
        /\ (p'.pc = "done" /\ p'.err /= NilErr) => p'.flags = p.flags ]_vars

\* C36 witness: Parse of -s=v -b -1 under an environment that holds B has
\* and S has returned FlagSyntaxError: s and b were each Set from the
\* environment and by their tokens, and s keeps v.
C36_Witness ==
    /\ p.pc = "done"
    /\ environ /= EmptyEnv
    /\ call.args = << <<"-","s","=","v">>, <<"-","b">>, <<"-","1">> >>
    /\ p.err = ErrFlagSyntax(<<"1">>)
    /\ p.flags[1].name = NameS /\ p.flags[1].envKey = EnvS
    /\ p.flags[1].value = ValV /\ p.flags[1].count = 2
    /\ p.flags[2].name = NameB /\ p.flags[2].count = 2 /\ p.flags[2].flag = TRUE

----------------------------------------------------------------------------
\* C37: a Run modifies no flag but the global flags and the flags of the
\* command it dispatches to: every other entry of the command table is left
\* as it was, and when the global-scope parse fails the whole command table
\* is left as it was.
C37_OtherScopesUntouched ==
    [][ CallOf("Run")
        => LET g   == GlobalParse(ret'.in.args)
               hit == ParseOk(g) /\ g.args /= <<>> /\ g.args[1] \in DOMAIN cli.commands
           IN  /\ DOMAIN cli'.commands = DOMAIN cli.commands
               /\ ~hit => cli'.commands = cli.commands
               /\ hit => \A k \in DOMAIN cli.commands :
                            cli.commands[k].name /= cli.commands[g.args[1]].name
                            => cli'.commands[k] = cli.commands[k] ]_vars

\* C37 witness: under an environment that holds S, a Run of x -s v v on an
\* application that also has the command y with a flag s of the same
\* environment key has Set the flag of x twice and the flag of y not at all.
C37_Witness ==
    /\ ret.op = "Run"
    /\ ret.in.args = <<AppName, <<"-","b">>, CmdX, <<"-","s">>, ValV, ValV>>
    /\ environ /= EmptyEnv
    /\ {CmdX, CmdY} \subseteq DOMAIN cli.commands
    /\ cli.commands[CmdX].name = CmdX /\ cli.commands[CmdY].name = CmdY
    /\ cli.commands[CmdX].flags /= <<>> /\ cli.commands[CmdY].flags /= <<>>
    /\ cli.commands[CmdX].flags[1].value = ValV
    /\ cli.commands[CmdX].flags[1].count = 2
    /\ cli.commands[CmdY].flags[1].envKey = EnvS
    /\ cli.commands[CmdY].flags[1].count = 0

----------------------------------------------------------------------------
\* C38: global middleware is bound when a command is added.  A call of Use
\* leaves every command of the table as it is; no later call changes the
\* handler a command was built with; the built-in help command is never
\* wrapped; and a Run that calls the handler of a command added before a Use
\* enters that command's handler as it was built, without the middleware of
\* the Use.
C38_UseBindsLater ==
    [][ /\ CallOf("Use") => cli'.commands = cli.commands
        /\ \A k \in DOMAIN cli.commands :
             /\ k \in DOMAIN cli'.commands
             /\ cli'.commands[k].handler = cli.commands[k].handler
        /\ cli'.commands[CmdHelp].handler = <<cli'.helpHandler>>
        /\ (CallOf("Run") /\ EventsOf(ret'.out, "command") /= <<>>
                          /\ Len(cli.commands[CommandToken(ret'.in.args)].handler) = 1)
           => /\ EventsOf(ret'.out, "enter") = <<>>
              /\ EventsOf(ret'.out, "exit") = <<>> ]_vars

\* C38 witness: x was added, then g1 and g2 were registered with Use, and a
\* Run of x has called the handler of x without entering g1 or g2.
C38_Witness ==
    /\ ret.op = "Run"
    /\ ret.in.args = <<AppName, CmdX>>
    /\ cli.middleware = <<"g1", "g2">>
    /\ CmdX \in DOMAIN cli.commands
    /\ cli.commands[CmdX].handler = <<"ok">>
    /\ Entered(ret.out) = <<"ok">>
    /\ EventsOf(ret.out, "enter") = <<>>

----------------------------------------------------------------------------
\* C39: the suggestion list of a Run names each registered command at most
\* once, whatever aliases the commands have.
C39_SuggestionsDistinct ==
    ret.op = "Run"
    => \A i, j \in 1..Len(Suggested(ret.out)) :
          Suggested(ret.out)[i] = Suggested(ret.out)[j] => i = j

----------------------------------------------------------------------------
\* The events out report an unknown command named t.
UnknownReported(out, t) ==
    /\ EventsOf(out, "stderr") /= <<>>
    /\ Head(EventsOf(out, "stderr")) = Errorf("Unknown command '%s'.", <<t>>)

\* C40: an Add that returns stores its command under the lower-cased name
\* and under the alias as given, and under no other key; a Run looks the
\* first positional token up as typed: it dispatches to the command stored
\* under exactly that token and treats every other token, one that differs
\* from a registered name only in letter case included, as an unknown command.
C40_VerbatimLookup ==
    [][ /\ (CallOf("Add") /\ ret'.panic = "")
           => /\ DOMAIN cli'.commands =
                    DOMAIN cli.commands \cup {ToLower(ret'.in.name)}
                       \cup (IF AliasAsked(ret'.in.opts) /= <<>>
                             THEN {AliasAsked(ret'.in.opts)} ELSE {})
              /\ \A k \in DOMAIN cli'.commands \ DOMAIN cli.commands :
                    /\ cli'.commands[k].name = ToLower(ret'.in.name)
                    /\ cli'.commands[k].handler[Len(cli'.commands[k].handler)]
                          = ret'.in.handler
        /\ (CallOf("Run") /\ GlobalParseOk(ret'.in.args)
                          /\ GlobalParse(ret'.in.args).args /= <<>>)
           => LET t == CommandToken(ret'.in.args) IN
              IF t \in DOMAIN cli.commands
              THEN /\ ~UnknownReported(ret'.out, t)
                   /\ \/ cli.commands[t].proxy
                      \/ Len(EventsOf(ret'.out, "parse")) = 2
                   /\ \A i \in 1..Len(ret'.out) :
                         ret'.out[i].ev = "command"
                         => ret'.out[i].id
                               = cli.commands[t].handler[Len(cli.commands[t].handler)]
              ELSE /\ UnknownReported(ret'.out, t)
                   /\ ret'.err = ErrExitFailure
                   /\ EventsOf(ret'.out, "command") = <<>> ]_vars

\* C40 witness: the command added under the name X is stored under x, and a
\* Run of the token X has been handled as an unknown command.
C40_Witness ==
    /\ ret.op = "Run"
    /\ ret.in.args = <<AppName, <<"X">>>>
    /\ CmdX \in DOMAIN cli.commands
    /\ cli.commands[CmdX].handler = <<"usage">>
    /\ <<"X">> \notin DOMAIN cli.commands
    /\ UnknownReported(ret.out, <<"X">>)
    /\ EventsOf(ret.out, "command") = <<>>
    /\ ret.err = ErrExitFailure
====
